---- MODULE Spec2Model ----
(***************************************************************************)
(* The WOPI bridge server of PreOffice (wopi-server/src/index.js with its   *)
(* middleware): the lock table, the session store, the three storage        *)
(* strategies (PreDrive, local disk, in-memory copy) and the handlers of    *)
(* the protocol and frontend endpoints.                                     *)
(*                                                                          *)
(* Node runs every handler on one thread: a handler's code between two      *)
(* awaits runs to completion before any other handler code.  Each action    *)
(* below is therefore one such segment; a handler that awaits an outbound   *)
(* call while holding values it read before (PutFile, DELETE) is two        *)
(* actions and a record in inflight between them.                           *)
(*                                                                          *)
(* Strings that the code inspects character by character (file ids, paths,  *)
(* storage names) are sequences of character codes.                         *)
(***************************************************************************)
EXTENDS Integers, Sequences, FiniteSets, TLC

VARIABLES
    now,            \* Date.now(), in milliseconds
    usePreDrive,    \* config.usePreDrive, fixed when the process starts
    fileLocks,      \* the Map fileLocks: fileId -> lock token
    sessionStore,   \* the Map sessionStore: sessionId -> session
    demoFiles,      \* the Map demoFiles: fileId -> content
    disk,           \* files under STORAGE_DIR: storage name -> content
    remote,         \* PreDrive: nodeId -> content
    nodeNames,      \* PreDrive: nodeId -> the name the node was last given
    issued,         \* access tokens handed to clients: sessionId -> payload
    rateLimitStore, \* the Map rateLimitStore: key -> { count, startTime }
    allowedLog,     \* when the limiter called next() in the last window length
    inflight,       \* handlers suspended on an outbound call
    last            \* the most recent request that was answered, and its answer

vars == <<now, usePreDrive, fileLocks, sessionStore, demoFiles, disk, remote, nodeNames,
          issued, rateLimitStore, allowedLog, inflight, last>>

----------------------------------------------------------------------------
(* JavaScript values *)

Undefined == "undefined"    \* a missing header, Map.get of a missing key
Absent    == "absent"       \* no entry in a Map, no file on disk, no node
NoNode    == "nonode"       \* nodeId null or undefined in a token

EmptyStr  == ""             \* the empty string

\* JavaScript truthiness of a header or lock value
Truthy(v) == v # Undefined /\ v # Absent /\ v # EmptyStr

Min(a, b) == IF a < b THEN a ELSE b

----------------------------------------------------------------------------
(* Strings as sequences of character codes *)

SubSeqFrom(s, i) == SubSeq(s, i, Len(s))

\* String.prototype.includes
Includes(s, sub) ==
    \E i \in 1..(Len(s) - Len(sub) + 1) : SubSeq(s, i, i + Len(sub) - 1) = sub

\* no string taken to start with another
StartsWithNothing(s, pre) == FALSE

\* String.prototype.startsWith
StartsWith(s, pre) == Len(s) >= Len(pre) /\ SubSeq(s, 1, Len(pre)) = pre

IsUpper(c) == c >= 65 /\ c <= 90
IsLower(c) == c >= 97 /\ c <= 122
IsDigit(c) == c >= 48 /\ c <= 57

\* the six-bit value of a base64 character, as Node's decoder reads it
\* (both the standard and the URL-safe alphabet)
B64Value(c) ==
    IF IsUpper(c) THEN c - 65
    ELSE IF IsLower(c) THEN c - 97 + 26
    ELSE IF IsDigit(c) THEN c - 48 + 52
    ELSE IF c = 43 \/ c = 45 THEN 62
    ELSE 63

\* the character of a six-bit value (standard alphabet)
B64Char(v) ==
    IF v < 26 THEN v + 65
    ELSE IF v < 52 THEN v - 26 + 97
    ELSE IF v < 62 THEN v - 52 + 48
    ELSE IF v = 62 THEN 43
    ELSE 47

\* Buffer.from(bytes).toString('base64')
RECURSIVE Base64Encode(_)
Base64Encode(b) ==
    IF Len(b) = 0 THEN <<>>
    ELSE IF Len(b) = 1 THEN
        <<B64Char(b[1] \div 4), B64Char((b[1] % 4) * 16), 61, 61>>
    ELSE IF Len(b) = 2 THEN
        <<B64Char(b[1] \div 4), B64Char((b[1] % 4) * 16 + b[2] \div 16),
          B64Char((b[2] % 16) * 4), 61>>
    ELSE
        <<B64Char(b[1] \div 4), B64Char((b[1] % 4) * 16 + b[2] \div 16),
          B64Char((b[2] % 16) * 4 + b[3] \div 64), B64Char(b[3] % 64)>>
        \o Base64Encode(SubSeqFrom(b, 4))

\* the characters of a base64 string that carry data: the padding ends it
RECURSIVE B64Data(_)
B64Data(s) ==
    IF Len(s) = 0 \/ s[1] = 61 THEN <<>>
    ELSE <<B64Value(s[1])>> \o B64Data(SubSeqFrom(s, 2))

\* the bytes of a sequence of six-bit values
RECURSIVE B64Bytes(_)
B64Bytes(v) ==
    IF Len(v) < 2 THEN <<>>
    ELSE IF Len(v) = 2 THEN <<v[1] * 4 + v[2] \div 16>>
    ELSE IF Len(v) = 3 THEN
        <<v[1] * 4 + v[2] \div 16, (v[2] % 16) * 16 + v[3] \div 4>>
    ELSE
        <<v[1] * 4 + v[2] \div 16, (v[2] % 16) * 16 + v[3] \div 4,
          (v[3] % 4) * 64 + v[4]>>
        \o B64Bytes(SubSeqFrom(v, 5))

\* Buffer.toString('utf8') on the bytes: an ASCII byte is its character, any
\* other byte decodes to a character that is neither '.' nor NUL nor '/'
Utf8Char(b) == IF b < 128 THEN b ELSE 65533

\* Buffer.from(fileId, 'base64').toString('utf8')
Base64Decode(s) ==
    LET b == B64Bytes(B64Data(s)) IN [i \in 1..Len(b) |-> Utf8Char(b[i])]

----------------------------------------------------------------------------
(* middleware/security.js *)

\* /^[A-Za-z0-9+/=_-]+$/
IsBase64PatternChar(c) ==
    IsUpper(c) \/ IsLower(c) \/ IsDigit(c) \/ c \in {43, 47, 61, 95, 45}

MaxFileIdLength == 1000

\* validateFileId(fileId): [valid, path]
validateFileId(fileId) ==
    IF Len(fileId) = 0 THEN [valid |-> FALSE, path |-> <<>>]
    ELSE IF Len(fileId) > MaxFileIdLength THEN [valid |-> FALSE, path |-> <<>>]
    ELSE IF \E i \in 1..Len(fileId) : ~IsBase64PatternChar(fileId[i])
        THEN [valid |-> FALSE, path |-> <<>>]
    ELSE LET decoded == Base64Decode(fileId) IN
        IF Includes(decoded, <<46, 46>>) \/ Includes(decoded, <<0>>)
            THEN [valid |-> FALSE, path |-> <<>>]
        ELSE IF StartsWith(decoded, <<47, 101, 116, 99, 47>>)          \* /etc/
             \/ StartsWith(decoded, <<47, 114, 111, 111, 116, 47>>)    \* /root/
             \/ StartsWith(decoded, <<47, 118, 97, 114, 47>>)          \* /var/
             \/ Includes(decoded, <<47, 46, 47>>)                      \* /./
            THEN [valid |-> FALSE, path |-> <<>>]
        ELSE [valid |-> TRUE, path |-> decoded]

----------------------------------------------------------------------------
(* Local storage fallback *)

StorageNameLength == 100

\* getStoragePath(fileId): the name of the file under STORAGE_DIR
getStoragePath(fileId) ==
    LET safe == [i \in 1..Len(fileId) |->
                    IF IsUpper(fileId[i]) \/ IsLower(fileId[i]) \/ IsDigit(fileId[i])
                       \/ fileId[i] \in {95, 61, 45}
                    THEN fileId[i] ELSE 95]
    IN SubSeq(safe, 1, Min(Len(safe), StorageNameLength))

----------------------------------------------------------------------------
(* sanitizeFilename *)

MAX_FILENAME_LENGTH == 255
SanitizedLimit == 255                       \* if (safe.length > 255)
SanitizedBase == 240                        \* safe.substring(0, 240)

NullName == <<>>                            \* null: no usable name

\* the path components kept
SplitKeep(s, c) == s

\* s.split(c).pop(): what follows the last c, the whole of s when it has none
SplitPop(s, c) ==
    LET at == {i \in 1..Len(s) : s[i] = c} IN
    IF at = {} THEN s
    ELSE SubSeqFrom(s, (CHOOSE i \in at : \A j \in at : j <= i) + 1)

\* [\x00-\x1f\x7f]
IsControlChar(c) == c <= 31 \/ c = 127

\* [.\s]: a dot or what JavaScript's \s matches
IsDotOrSpace(c) ==
    \/ c = 46
    \/ c \in {9, 10, 11, 12, 13, 32, 160, 5760, 8232, 8233, 8239, 8287, 12288, 65279}
    \/ (c >= 8192 /\ c <= 8202)

\* [<>:"|?*]
IsDangerousChar(c) == c \in {60, 62, 58, 34, 124, 63, 42}

\* safe.replace(/[\x00-\x1f\x7f]/g, '')
StripControl(s) == SelectSeq(s, LAMBDA c : ~IsControlChar(c))

\* safe.replace(/^[.\s]+|[.\s]+$/g, '')
TrimDotsAndSpaces(s) ==
    IF \A i \in 1..Len(s) : IsDotOrSpace(s[i]) THEN <<>>
    ELSE SubSeq(s,
            CHOOSE i \in 1..Len(s) :
                ~IsDotOrSpace(s[i]) /\ \A j \in 1..(i - 1) : IsDotOrSpace(s[j]),
            CHOOSE i \in 1..Len(s) :
                ~IsDotOrSpace(s[i]) /\ \A j \in (i + 1)..Len(s) : IsDotOrSpace(s[j]))

\* safe.replace(/[<>:"|?*]/g, '_')
ReplaceDangerous(s) == [i \in 1..Len(s) |-> IF IsDangerousChar(s[i]) THEN 95 ELSE s[i]]

\* the length limit: the first 240 characters, a dot, and what follows the
\* last dot of the name
LimitLength(s) ==
    IF Len(s) > SanitizedLimit
    THEN SubSeq(s, 1, SanitizedBase) \o <<46>> \o SplitPop(s, 46)
    ELSE s

\* sanitizeFilename(filename); a missing or empty filename is <<>>
sanitizeFilename(filename) ==
    IF filename = <<>> THEN NullName
    ELSE LimitLength(ReplaceDangerous(TrimDotsAndSpaces(StripControl(
             SplitPop(SplitPop(filename, 47), 92)))))

----------------------------------------------------------------------------
(* The values the model draws requests from *)

PathA == <<97, 46, 111, 100, 116>>          \* "a.odt"
PathB == <<98, 46, 111, 100, 116>>          \* "b.odt"
PathUp == <<46, 46, 47, 120>>               \* "../x"
NoPath == <<>>                              \* filePath missing or ''

FileA == Base64Encode(PathA)
FileB == Base64Encode(PathB)
FileUp == Base64Encode(PathUp)

NameNew == <<99, 46, 111, 100, 116>>        \* "c.odt"
PathNew == <<47>> \o NameNew                \* "/c.odt"
FileNew == Base64Encode(PathNew)

\* two paths whose file ids differ in one character, '+' or '/'
PathGt == <<113, 97, 62, 46, 111, 100, 116>>    \* "qa>.odt"
PathQm == <<113, 97, 63, 46, 111, 100, 116>>    \* "qa?.odt"
FileGt == Base64Encode(PathGt)
FileQm == Base64Encode(PathQm)
SharedFileIds == {FileGt, FileQm}

FileIds == {FileA, FileB}                   \* the files tokens are issued for
\* the file ids requests carry
RequestFileIds == FileIds \cup {FileUp} \cup SharedFileIds
MapKeys == RequestFileIds \cup {FileNew}    \* the keys the Maps can hold
StorageNames == {getStoragePath(f) : f \in MapKeys}

\* validateFileId and getStoragePath on the file ids of the requests, computed once
Validations == [f \in MapKeys |-> validateFileId(f)]
StoragePaths == [f \in MapKeys |-> getStoragePath(f)]
\* every file id taken for valid
ValidationSkipped(f) == [valid |-> TRUE, path |-> PathUp]

Validation(f) == Validations[f]
StoragePath(f) == StoragePaths[f]

NodeIds == {"n1"}
CreatedNode == "n2"                         \* the node /api/create makes in PreDrive
RemoteNodes == NodeIds \cup {CreatedNode}
NodeName(n) == nodeNames[n]                 \* node.name of the PreDrive node
NodeIdText(n) == <<110, 49>>                \* "n1"
LockTokens == {"t1", "t2"}
LockHeaders == LockTokens \cup {Undefined}  \* X-WOPI-Lock, X-WOPI-OldLock
InitialContent == "b0"                      \* what PreDrive holds at the start

MaxInflight == 1                            \* handlers suspended at one time
MaxRateCount == 22                          \* requests counted in one window

NoToken == 0                                \* a request without access_token

\* the clients of the rate limiter: the first entry of X-Forwarded-For, or
\* req.ip; the key is `${keyPrefix}:${ip}`
ClientIps == {"10.0.0.1", "10.0.0.2"}
KeyPrefixes == {"api", "edit", "create", "wopi"}

\* every class keyed by the client alone
KeyWithoutPrefix(keyPrefix, ip) == ip

RateKey(keyPrefix, ip) == keyPrefix \o ":" \o ip

----------------------------------------------------------------------------
(* config/constants.js and jsonwebtoken *)

SESSION_EXPIRY_MS == 14400000               \* 4 * 60 * 60 * 1000
JWT_TOKEN_EXPIRY == 14400                   \* '4h', in seconds
MAX_SESSIONS_PER_USER == 10

\* jsonwebtoken's clock: Math.floor(Date.now() / 1000)
ClockTimestamp(t) == t \div 1000

\* jwt.sign(payload, secret, { expiresIn }): iat is the clock in whole seconds.
\* issuedAt is not in the token: it is the instant the token was made.
JwtSign(userId, fileId, nodeId, sessionId, t) ==
    [userId |-> userId, fileId |-> fileId, nodeId |-> nodeId,
     sessionId |-> sessionId,
     iat |-> ClockTimestamp(t), exp |-> ClockTimestamp(t) + JWT_TOKEN_EXPIRY,
     issuedAt |-> t]

\* a token still good in the second it expires
ExpiredLate(payload, t) == ClockTimestamp(t) > payload.exp

\* jwt.verify's expiry test: it throws when clockTimestamp >= payload.exp
JwtExpired(payload, t) == ClockTimestamp(t) >= payload.exp

\* jwt.verify(token, JWT_SECRET) returns the payload
JwtVerifies(tok, t) ==
    /\ tok \in DOMAIN issued
    /\ ~JwtExpired(issued[tok], t)

----------------------------------------------------------------------------
(* middleware/auth.js *)

\* the token verified and the session store not asked
VerifyOnly(tok) ==
    IF tok = NoToken THEN 401
    ELSE IF ~JwtVerifies(tok, now) THEN 401
    ELSE 0

\* requireWopiAuth: the status it answers, or 0 when it calls next()
requireWopiAuth(tok) ==
    IF tok = NoToken THEN 401
    ELSE IF ~JwtVerifies(tok, now) THEN 401
    ELSE IF tok \notin DOMAIN sessionStore THEN 401
    ELSE 0

\* req.auth = { ...decoded, session }: decoded.nodeId and session?.userToken
AuthNodeId(tok) == issued[tok].nodeId
AuthUserToken(tok) ==
    IF tok \in DOMAIN sessionStore THEN sessionStore[tok].userToken ELSE Undefined
AuthUserName(tok) ==
    IF tok \in DOMAIN sessionStore THEN sessionStore[tok].userName ELSE Undefined

----------------------------------------------------------------------------
(* Helpers of index.js *)

\* the lock table never consulted
LockNeverRead(f) == Undefined

\* fileLocks.get(fileId)
LockGet(f) == IF fileLocks[f] = Absent THEN Undefined ELSE fileLocks[f]

\* the record left in the Map
LockKept(f) == fileLocks

\* fileLocks.set(fileId, value) and fileLocks.delete(fileId)
LockSet(f, value) == [fileLocks EXCEPT ![f] = value]
LockDelete(f) == [fileLocks EXCEPT ![f] = Absent]

\* config.usePreDrive && nodeId && session?.userToken
UsesPreDrive(tok) ==
    usePreDrive /\ AuthNodeId(tok) # NoNode /\ Truthy(AuthUserToken(tok))

\* readFileFromStorage(fileId): the content, or Absent for null
readFileFromStorage(f) == disk[StoragePath(f)]

\* a write that leaves the disk as it was
WriteLost(f, content) == disk

\* writeFileToStorage(fileId, content)
writeFileToStorage(f, content) == [disk EXCEPT ![StoragePath(f)] = content]

\* generateAccessToken: the session store after the call
generateAccessToken(sid, userId, fileId, nodeId, userToken, userName) ==
    (sid :> [userToken |-> userToken, userName |-> userName, nodeId |-> nodeId,
             fileId |-> fileId, userId |-> userId, createdAt |-> now])
    @@ sessionStore

\* uuidv4(): an id no token has carried
FreshSessionId(sid) == sid = Cardinality(DOMAIN issued) + 1

\* the Bearer token of the user's /api requests
Credential(user) == IF user = "u1" THEN "credential-u1" ELSE "credential-u2"

----------------------------------------------------------------------------
(* Answers *)

NoBody == "nobody"
EmptyContent == "empty"                     \* Buffer.alloc(0)

\* The answer to a request, with what the request carried and what its handler
\* read: cur is the handler's currentLock and at the clock when it ran.  prior
\* is set on the answer to a LOCK that follows the answer to another LOCK on
\* the same file which found it unlocked and took it: it is that LOCK's token.
\* sent is the body of a PutFile request that was acknowledged, the name a
\* RENAME_FILE request asked for, the argument of a call of sanitizeFilename.
Answer(op, f, tok, lockId, oldLockId, cur, status, hdrLock, body) ==
    [op |-> op, fileId |-> f, tok |-> tok, lockId |-> lockId,
     oldLockId |-> oldLockId, cur |-> cur, status |-> status,
     hdrLock |-> hdrLock, body |-> body, at |-> now, sent |-> NoBody,
     prior |-> IF op = "LOCK" /\ last.op = "LOCK" /\ last.status = 200
                  /\ last.fileId = f /\ ~Truthy(last.cur)
               THEN last.lockId ELSE Undefined]

NoAnswer ==
    [op |-> "none", fileId |-> <<>>, tok |-> NoToken, lockId |-> Undefined,
     oldLockId |-> Undefined, cur |-> Undefined, status |-> 0,
     hdrLock |-> Undefined, body |-> NoBody, at |-> 0, sent |-> NoBody,
     prior |-> Undefined]

\* a handler is suspended on its outbound call: h holds what it read so far.
\* Two suspended handlers that read the same are not told apart.
Suspend(h) ==
    /\ Cardinality(inflight) < MaxInflight
    /\ h \notin inflight
    /\ inflight' = inflight \cup {h}

----------------------------------------------------------------------------
(* The state after the process has started *)

Init ==
    /\ now = 0
    /\ usePreDrive \in BOOLEAN
    /\ fileLocks = [f \in MapKeys |-> Absent]
    /\ sessionStore = <<>>
    /\ demoFiles = [f \in MapKeys |-> Absent]
    /\ disk = [n \in StorageNames |-> Absent]
    /\ remote = [n \in RemoteNodes |-> IF n \in NodeIds THEN InitialContent ELSE Absent]
    /\ nodeNames = [n \in RemoteNodes |-> IF n \in NodeIds THEN PathA ELSE Absent]
    /\ issued = <<>>
    /\ rateLimitStore = <<>>
    /\ allowedLog = <<>>
    /\ inflight = {}
    /\ last = NoAnswer

Memory == <<fileLocks, sessionStore, demoFiles>>
Storage == <<disk, remote, nodeNames>>

\* every refusal answered 200
RefusedWith200(op, f, tok, status) ==
    /\ last' = Answer(op, f, tok, Undefined, Undefined, Undefined, 200,
                      Undefined, NoBody)
    /\ UNCHANGED <<now, usePreDrive, rateLimitStore, allowedLog, Memory, Storage, issued, inflight>>

\* a request answered by the middleware or by the fileId validation, which
\* read none of the lock headers
Refuse(op, f, tok, status) ==
    /\ last' = Answer(op, f, tok, Undefined, Undefined, Undefined, status,
                      Undefined, NoBody)
    /\ UNCHANGED <<now, usePreDrive, rateLimitStore, allowedLog, Memory, Storage, issued, inflight>>

----------------------------------------------------------------------------
(* POST /api/edit *)

FilePrefix == <<47, 102, 105, 108, 101, 45>>        \* "/file-"

\* user is the user requireBearerAuth found for the Bearer token; filePath and
\* nodeId come from the body; fetchOk is whether PreDrive answers the node
\* lookup; sid is the uuid.  The handler reads and writes the server's state
\* only after that lookup, so it is one action.
ApiEditAs(user, userToken, filePath, nodeId, fetchOk, sid) ==
    LET fetched == usePreDrive /\ nodeId # Undefined /\ Truthy(userToken)
        actualFilePath == IF fetched /\ fetchOk THEN NodeName(nodeId) ELSE filePath
        path == IF actualFilePath # NoPath THEN actualFilePath
                ELSE FilePrefix \o NodeIdText(nodeId)
        fileId == Base64Encode(path)
        tokenNode == IF nodeId = Undefined THEN NoNode ELSE nodeId
    IN
    IF filePath = NoPath /\ nodeId = Undefined
        THEN Refuse("edit", <<>>, NoToken, 400)
    ELSE IF fetched /\ ~fetchOk /\ filePath = NoPath
        THEN Refuse("edit", <<>>, NoToken, 404)
    ELSE
        /\ FreshSessionId(sid)
        /\ fileId \in RequestFileIds
        /\ issued' = (sid :> JwtSign(user, fileId, tokenNode, sid, now)) @@ issued
        /\ sessionStore' = generateAccessToken(sid, user, fileId, tokenNode,
                                               userToken, user)
        /\ last' = Answer("edit", fileId, sid, Undefined, Undefined, Undefined,
                          200, Undefined,
                          [fileId |-> fileId, nodeId |-> nodeId, accessToken |-> sid])
        /\ UNCHANGED <<now, usePreDrive, rateLimitStore, allowedLog, fileLocks, demoFiles, Storage, inflight>>

\* the request of a user whose Bearer token is Credential(user)
ApiEdit(user, filePath, nodeId, fetchOk, sid) ==
    ApiEditAs(user, Credential(user), filePath, nodeId, fetchOk, sid)

----------------------------------------------------------------------------
(* POST /api/create *)

Untitled == <<85, 110, 116, 105, 116, 108, 101, 100, 46, 111, 100, 116>>  \* "Untitled.odt"

\* s.replace('//', '/'): the first '//' of s becomes '/'
ReplaceDoubleSlash(s) ==
    LET at == {i \in 1..(Len(s) - 1) : s[i] = 47 /\ s[i + 1] = 47} IN
    IF at = {} THEN s
    ELSE LET i == CHOOSE k \in at : \A j \in at : k <= j
         IN SubSeq(s, 1, i) \o SubSeqFrom(s, i + 2)

\* user and userToken are what requireBearerAuth found; name and folder come
\* from the body (the type is 'document'); created is whether PreDrive made
\* the node; sid is the uuid.  The handler touches the server's state only
\* after its calls to PreDrive, so it is one action.
ApiCreate(user, userToken, name, folder, created, sid) ==
    LET sanitized == sanitizeFilename(IF name = <<>> THEN Untitled ELSE name)
        fileName == IF sanitized = NullName THEN Untitled ELSE sanitized
        filePath == ReplaceDoubleSlash(
                        (IF folder = <<>> THEN <<47>> ELSE folder) \o <<47>> \o fileName)
        made == usePreDrive /\ Truthy(userToken) /\ created
        nodeId == IF made THEN CreatedNode ELSE NoNode
        fileId == Base64Encode(filePath)
    IN
    /\ FreshSessionId(sid)
    /\ made => remote[CreatedNode] = Absent
    /\ IF made
       THEN /\ remote' = [remote EXCEPT ![CreatedNode] = EmptyContent]
            /\ nodeNames' = [nodeNames EXCEPT ![CreatedNode] = fileName]
       ELSE UNCHANGED <<remote, nodeNames>>
    /\ issued' = (sid :> JwtSign(user, fileId, nodeId, sid, now)) @@ issued
    /\ sessionStore' = generateAccessToken(sid, user, fileId, nodeId, userToken, user)
    /\ last' = Answer("create", fileId, sid, Undefined, Undefined, Undefined,
                      200, Undefined,
                      [filePath |-> filePath, fileName |-> fileName, nodeId |-> nodeId,
                       fileId |-> fileId, accessToken |-> sid])
    /\ UNCHANGED <<now, usePreDrive, rateLimitStore, allowedLog, fileLocks, demoFiles, disk, inflight>>

----------------------------------------------------------------------------
(* GET /wopi/files/:fileId *)

\* the response with the session's credential for the user's name
FileInfoWithCredential(userToken, userName, userId, size) ==
    [OwnerId |-> userId, UserId |-> userId, Size |-> size,
     UserFriendlyName |-> userToken]

\* the fields of the response that tell of the user and of the file's size,
\* made from session?.userToken, session?.userName and the token's userId
FileInfo(userToken, userName, userId, size) ==
    [OwnerId |-> userId, UserId |-> userId, Size |-> size,
     UserFriendlyName |-> IF Truthy(userName) THEN userName ELSE "User"]

\* fetchOk: whether PreDrive answers the node lookup
CheckFileInfo(f, tok, fetchOk) ==
    IF requireWopiAuth(tok) # 0
        THEN Refuse("CheckFileInfo", f, tok, requireWopiAuth(tok))
    ELSE IF ~Validation(f).valid
        THEN Refuse("CheckFileInfo", f, tok, 400)
    ELSE
        LET sized ==
                IF UsesPreDrive(tok)
                THEN (IF fetchOk THEN remote[AuthNodeId(tok)] ELSE Absent)
                ELSE readFileFromStorage(f)
        IN
        /\ last' = Answer("CheckFileInfo", f, tok, Undefined, Undefined, Undefined,
                          200, Undefined,
                          FileInfo(AuthUserToken(tok), AuthUserName(tok),
                                   issued[tok].userId,
                                   IF sized = Absent THEN EmptyContent ELSE sized))
        /\ UNCHANGED <<now, usePreDrive, rateLimitStore, allowedLog, Memory, Storage, issued, inflight>>

----------------------------------------------------------------------------
(* GET /wopi/files/:fileId/contents *)

\* the local disk asked before PreDrive
DiskBeforePreDrive(f, tok, downloadOk) ==
    IF readFileFromStorage(f) # Absent THEN readFileFromStorage(f)
    ELSE IF UsesPreDrive(tok) /\ downloadOk /\ remote[AuthNodeId(tok)] # Absent
        THEN remote[AuthNodeId(tok)]
    ELSE IF demoFiles[f] # Absent THEN demoFiles[f]
    ELSE EmptyContent

\* the content GetFile sends: PreDrive, then local disk, then demoFiles,
\* then an empty buffer
GetFileContent(f, tok, downloadOk) ==
    IF UsesPreDrive(tok) /\ downloadOk /\ remote[AuthNodeId(tok)] # Absent
        THEN remote[AuthNodeId(tok)]
    ELSE IF readFileFromStorage(f) # Absent THEN readFileFromStorage(f)
    ELSE IF demoFiles[f] # Absent THEN demoFiles[f]
    ELSE EmptyContent

\* downloadOk: whether the download from PreDrive succeeds.  The handler reads
\* the server's state only after the download, so it is one action.
GetFile(f, tok, downloadOk) ==
    IF requireWopiAuth(tok) # 0
        THEN Refuse("GetFile", f, tok, requireWopiAuth(tok))
    ELSE IF ~Validation(f).valid
        THEN Refuse("GetFile", f, tok, 400)
    ELSE
        /\ last' = Answer("GetFile", f, tok, Undefined, Undefined, Undefined,
                          200, Undefined, GetFileContent(f, tok, downloadOk))
        /\ UNCHANGED <<now, usePreDrive, rateLimitStore, allowedLog, Memory, Storage, issued, inflight>>

----------------------------------------------------------------------------
(* POST /wopi/files/:fileId/contents *)

\* the lock check left out
LockCheckForgotten(currentLock, lockId) == FALSE

\* the comparison the wrong way round
LockCheckInverted(currentLock, lockId) == Truthy(currentLock) /\ currentLock = lockId

\* currentLock && currentLock !== lockId
LockConflict(currentLock, lockId) == Truthy(currentLock) /\ currentLock # lockId

NoVersion == -1                             \* result.version undefined

\* the handler up to its await: the lock check, then either the local write
\* or the upload to PreDrive, on which it is suspended.  newVersion is the
\* clock, read before the await.  written: whether fs.writeFileSync succeeds;
\* when it throws, the handler's catch answers 500.
PutFileTo(f, tok, lockId, content, written) ==
    IF requireWopiAuth(tok) # 0
        THEN Refuse("PutFile", f, tok, requireWopiAuth(tok))
    ELSE IF ~Validation(f).valid
        THEN Refuse("PutFile", f, tok, 400)
    ELSE LET currentLock == LockGet(f) IN
        IF LockConflict(currentLock, lockId) THEN
            /\ last' = Answer("PutFile", f, tok, lockId, Undefined, currentLock,
                              409, currentLock, NoBody)
            /\ UNCHANGED <<now, usePreDrive, rateLimitStore, allowedLog, Memory, Storage, issued, inflight>>
        ELSE IF UsesPreDrive(tok) THEN
            /\ Suspend([op |-> "PutFile", fileId |-> f, tok |-> tok,
                         lockId |-> lockId, cur |-> currentLock,
                         nodeId |-> AuthNodeId(tok), content |-> content,
                         version |-> now])
            /\ UNCHANGED <<now, usePreDrive, rateLimitStore, allowedLog, Memory, Storage, issued, last>>
        ELSE IF written THEN
            /\ disk' = writeFileToStorage(f, content)
            /\ demoFiles' = [demoFiles EXCEPT ![f] = content]
            /\ last' = [Answer("PutFile", f, tok, lockId, Undefined, currentLock,
                               200, Undefined, now) EXCEPT !.sent = content]
            /\ UNCHANGED <<now, usePreDrive, rateLimitStore, allowedLog, fileLocks, sessionStore, remote, nodeNames,
                           issued, inflight>>
        ELSE
            /\ last' = Answer("PutFile", f, tok, lockId, Undefined, currentLock,
                              500, Undefined, NoBody)
            /\ UNCHANGED <<now, usePreDrive, rateLimitStore, allowedLog, Memory, Storage, issued, inflight>>

\* the handler when the local disk takes every write
PutFile(f, tok, lockId, content) == PutFileTo(f, tok, lockId, content, TRUE)

\* the handler after uploadToPreDrive settled: stored is whether PreDrive took
\* the bytes (it takes none for a node that is gone) and version the version
\* it reported, if any; a failure or a timeout falls back to local disk, and
\* written is whether that write succeeds
PutFileSettledTo(h, stored, written, version) ==
    /\ h \in inflight
    /\ h.op = "PutFile"
    /\ IF stored /\ remote[h.nodeId] # Absent
       THEN /\ remote' = [remote EXCEPT ![h.nodeId] = h.content]
            /\ last' = [Answer("PutFile", h.fileId, h.tok, h.lockId, Undefined,
                               h.cur, 200, Undefined,
                               IF version = NoVersion THEN h.version ELSE version)
                        EXCEPT !.sent = h.content]
            /\ UNCHANGED <<disk, demoFiles>>
       ELSE IF written
       THEN /\ disk' = writeFileToStorage(h.fileId, h.content)
            /\ demoFiles' = [demoFiles EXCEPT ![h.fileId] = h.content]
            /\ last' = [Answer("PutFile", h.fileId, h.tok, h.lockId, Undefined,
                               h.cur, 200, Undefined, h.version)
                        EXCEPT !.sent = h.content]
            /\ UNCHANGED remote
       ELSE /\ last' = Answer("PutFile", h.fileId, h.tok, h.lockId, Undefined,
                              h.cur, 500, Undefined, NoBody)
            /\ UNCHANGED <<disk, demoFiles, remote>>
    /\ inflight' = inflight \ {h}
    /\ UNCHANGED <<now, usePreDrive, rateLimitStore, allowedLog, fileLocks, sessionStore, nodeNames, issued>>

\* the same when PreDrive reports no version and the local disk takes every write
PutFileSettled(h, stored) == PutFileSettledTo(h, stored, TRUE, NoVersion)

----------------------------------------------------------------------------
(* POST /wopi/files/:fileId *)

LockOverrides == {"LOCK", "GET_LOCK", "REFRESH_LOCK", "UNLOCK", "UNLOCK_AND_RELOCK"}

\* the header always set to ''
AlwaysEmpty(v) == EmptyStr

\* the header set to currentLock as it is
NotDefaulted(v) == v

\* currentLock || ''
OrEmpty(v) == IF Truthy(v) THEN v ELSE EmptyStr

\* the lock operations of the switch: answered without any await
LockOperation(f, tok, override, lockId, oldLockId) ==
    LET currentLock == LockGet(f)
        Done(status, hdrLock, locks) ==
            /\ fileLocks' = locks
            /\ last' = Answer(override, f, tok, lockId, oldLockId, currentLock,
                              status, hdrLock, NoBody)
            /\ UNCHANGED <<now, usePreDrive, rateLimitStore, allowedLog, sessionStore, demoFiles, Storage,
                           issued, inflight>>
    IN
    CASE override = "LOCK" ->
            IF LockConflict(currentLock, lockId)
            THEN Done(409, currentLock, fileLocks)
            ELSE Done(200, Undefined, LockSet(f, lockId))
      [] override = "GET_LOCK" ->
            Done(200, OrEmpty(currentLock), fileLocks)
      [] override = "REFRESH_LOCK" ->
            IF currentLock # lockId
            THEN Done(409, OrEmpty(currentLock), fileLocks)
            ELSE Done(200, Undefined, fileLocks)
      [] override = "UNLOCK" ->
            IF currentLock # lockId
            THEN Done(409, OrEmpty(currentLock), fileLocks)
            ELSE Done(200, Undefined, LockDelete(f))
      [] override = "UNLOCK_AND_RELOCK" ->
            IF currentLock # oldLockId
            THEN Done(409, OrEmpty(currentLock), fileLocks)
            ELSE Done(200, Undefined, LockSet(f, lockId))

\* handleDeleteFile up to its await: the lock check, then either the local
\* delete or the DELETE sent to PreDrive, on which it is suspended
handleDeleteFile(f, tok, lockId, currentLock) ==
    IF LockConflict(currentLock, lockId) THEN
        /\ last' = Answer("DELETE", f, tok, lockId, Undefined, currentLock,
                          409, currentLock, NoBody)
        /\ UNCHANGED <<now, usePreDrive, rateLimitStore, allowedLog, Memory, Storage, issued, inflight>>
    ELSE IF ~UsesPreDrive(tok) THEN
        /\ disk' = [disk EXCEPT ![StoragePath(f)] = Absent]
        /\ demoFiles' = [demoFiles EXCEPT ![f] = Absent]
        /\ fileLocks' = LockDelete(f)
        /\ last' = Answer("DELETE", f, tok, lockId, Undefined, currentLock,
                          200, Undefined, NoBody)
        /\ UNCHANGED <<now, usePreDrive, rateLimitStore, allowedLog, sessionStore, remote, nodeNames, issued,
                       inflight>>
    ELSE
        /\ Suspend([op |-> "DELETE", fileId |-> f, tok |-> tok,
                     lockId |-> lockId, cur |-> currentLock,
                     nodeId |-> AuthNodeId(tok), content |-> NoBody,
                     version |-> now])
        /\ UNCHANGED <<now, usePreDrive, rateLimitStore, allowedLog, Memory, Storage, issued, last>>

\* predriveRequest without a timeout and PreDrive never answering: the
\* handler is not resumed
DeleteNeverSettled(h, deleted) ==
    /\ h \in inflight
    /\ FALSE
    /\ UNCHANGED vars

\* the lock record deleted whether or not PreDrive deleted the node
DeleteSettledUnlocking(h, deleted) ==
    /\ h \in inflight
    /\ h.op = "DELETE"
    /\ fileLocks' = LockDelete(h.fileId)
    /\ IF deleted /\ remote[h.nodeId] # Absent
       THEN /\ remote' = [remote EXCEPT ![h.nodeId] = Absent]
            /\ last' = Answer("DELETE", h.fileId, h.tok, h.lockId, Undefined,
                              h.cur, 200, Undefined, NoBody)
       ELSE /\ last' = Answer("DELETE", h.fileId, h.tok, h.lockId, Undefined,
                              h.cur, 500, Undefined, NoBody)
            /\ UNCHANGED remote
    /\ inflight' = inflight \ {h}
    /\ UNCHANGED <<now, usePreDrive, rateLimitStore, allowedLog, sessionStore, demoFiles, disk,
                   nodeNames, issued>>

\* handleDeleteFile after predriveRequest('DELETE') settled: deleted is
\* whether PreDrive deleted the node (it cannot delete a node that is gone);
\* a failure or a timeout answers 500
DeleteSettled(h, deleted) ==
    /\ h \in inflight
    /\ h.op = "DELETE"
    /\  IF deleted /\ remote[h.nodeId] # Absent
        THEN /\ remote' = [remote EXCEPT ![h.nodeId] = Absent]
             /\ fileLocks' = LockDelete(h.fileId)
             /\ last' = Answer("DELETE", h.fileId, h.tok, h.lockId, Undefined,
                               h.cur, 200, Undefined, NoBody)
        ELSE /\ last' = Answer("DELETE", h.fileId, h.tok, h.lockId, Undefined,
                               h.cur, 500, Undefined, NoBody)
             /\ UNCHANGED <<remote, fileLocks>>
    /\ inflight' = inflight \ {h}
    /\ UNCHANGED <<now, usePreDrive, rateLimitStore, allowedLog, sessionStore, demoFiles, disk, nodeNames, issued>>

\* filePath.split('/').slice(0, -1).join('/') || '/'
FolderOf(filePath) ==
    LET at == {i \in 1..Len(filePath) : filePath[i] = 47}
        upTo == IF at = {} THEN 0 ELSE (CHOOSE i \in at : \A j \in at : j <= i) - 1
    IN IF upTo = 0 THEN <<47>> ELSE SubSeq(filePath, 1, upTo)

\* filePath.split('/').pop().split('.').slice(0, -1).join('.')
BaseNameOf(filePath) ==
    LET name == SplitPop(filePath, 47)
        at == {i \in 1..Len(name) : name[i] = 46}
    IN IF at = {} THEN <<>>
       ELSE SubSeq(name, 1, (CHOOSE i \in at : \A j \in at : j <= i) - 1)

\* POST /wopi/files/:fileId with the override PUT_RELATIVE: suggested and
\* relative are the two target headers (<<>> when missing), content the body,
\* written whether fs.writeFileSync succeeds, sid the uuid of the new token
WopiPutRelative(f, tok, suggested, relative, content, written, sid) ==
    IF requireWopiAuth(tok) # 0
        THEN Refuse("PUT_RELATIVE", f, tok, requireWopiAuth(tok))
    ELSE IF ~Validation(f).valid
        THEN Refuse("PUT_RELATIVE", f, tok, 400)
    ELSE IF ~usePreDrive \/ ~Truthy(AuthUserToken(tok))
        THEN Refuse("PUT_RELATIVE", f, tok, 501)
    ELSE LET session == sessionStore[tok]
             filePath == Validation(f).path
             sanitized == sanitizeFilename(IF relative # <<>> THEN relative ELSE suggested)
             newFileName == IF sanitized # NullName /\ sanitized[1] = 46
                            THEN BaseNameOf(filePath) \o sanitized ELSE sanitized
             newFilePath == ReplaceDoubleSlash(FolderOf(filePath) \o <<47>> \o newFileName)
             newFileId == Base64Encode(newFilePath)
         IN
         IF sanitized = NullName THEN Refuse("PUT_RELATIVE", f, tok, 400)
         ELSE IF ~written THEN Refuse("PUT_RELATIVE", f, tok, 500)
         ELSE
            /\ FreshSessionId(sid)
            /\ newFileId \in MapKeys
            /\ disk' = writeFileToStorage(newFileId, content)
            /\ demoFiles' = [demoFiles EXCEPT ![newFileId] = content]
            /\ issued' = (sid :> JwtSign(session.userId, newFileId, NoNode, sid, now))
                          @@ issued
            /\ sessionStore' = generateAccessToken(sid, session.userId, newFileId, NoNode,
                                                   session.userToken, session.userName)
            /\ last' = Answer("PUT_RELATIVE", f, tok, Undefined, Undefined, Undefined,
                              200, Undefined,
                              [Name |-> newFileName, fileId |-> newFileId,
                               accessToken |-> sid])
            /\ UNCHANGED <<now, usePreDrive, rateLimitStore, allowedLog, fileLocks, remote, nodeNames, inflight>>

\* POST /wopi/files/:fileId with the override RENAME_FILE: requestedName is
\* the header X-WOPI-RequestedName (<<>> when missing) and patched whether
\* PreDrive carries out the PATCH of the node.  The handler reads nothing of
\* the server's state after that call, so it is one action.
WopiRename(f, tok, requestedName, patched) ==
    IF requireWopiAuth(tok) # 0
        THEN Refuse("RENAME_FILE", f, tok, requireWopiAuth(tok))
    ELSE IF ~Validation(f).valid
        THEN Refuse("RENAME_FILE", f, tok, 400)
    ELSE LET sanitizedName == sanitizeFilename(requestedName) IN
        IF sanitizedName = NullName THEN
            /\ last' = [Answer("RENAME_FILE", f, tok, Undefined, Undefined, Undefined,
                               400, Undefined, NoBody) EXCEPT !.sent = requestedName]
            /\ UNCHANGED <<now, usePreDrive, rateLimitStore, allowedLog, Memory, Storage, issued, inflight>>
        ELSE IF ~UsesPreDrive(tok) THEN
            /\ last' = [Answer("RENAME_FILE", f, tok, Undefined, Undefined, Undefined,
                               200, Undefined, [Name |-> sanitizedName])
                        EXCEPT !.sent = requestedName]
            /\ UNCHANGED <<now, usePreDrive, rateLimitStore, allowedLog, Memory, Storage, issued, inflight>>
        ELSE IF patched /\ remote[AuthNodeId(tok)] # Absent THEN
            /\ nodeNames' = [nodeNames EXCEPT ![AuthNodeId(tok)] = sanitizedName]
            /\ last' = [Answer("RENAME_FILE", f, tok, Undefined, Undefined, Undefined,
                               200, Undefined, [Name |-> sanitizedName])
                        EXCEPT !.sent = requestedName]
            /\ UNCHANGED <<now, usePreDrive, rateLimitStore, allowedLog, Memory, disk, remote, issued, inflight>>
        ELSE
            /\ last' = [Answer("RENAME_FILE", f, tok, Undefined, Undefined, Undefined,
                               500, Undefined, NoBody) EXCEPT !.sent = requestedName]
            /\ UNCHANGED <<now, usePreDrive, rateLimitStore, allowedLog, Memory, Storage, issued, inflight>>

\* the handler of POST /wopi/files/:fileId, for the lock overrides, DELETE and
\* an override the switch does not know (PUT_RELATIVE and RENAME_FILE have
\* their own actions, WopiPutRelative and WopiRename)
WopiPost(f, tok, override, lockId, oldLockId) ==
    IF requireWopiAuth(tok) # 0
        THEN Refuse(override, f, tok, requireWopiAuth(tok))
    ELSE IF ~Validation(f).valid
        THEN Refuse(override, f, tok, 400)
    ELSE IF override \in LockOverrides
        THEN LockOperation(f, tok, override, lockId, oldLockId)
    ELSE IF override = "DELETE"
        THEN handleDeleteFile(f, tok, lockId, LockGet(f))
    ELSE Refuse(override, f, tok, 400)

----------------------------------------------------------------------------
(* Time, the session sweep, a restart of the process *)

Tick(t) ==
    /\ t > now
    /\ now' = t
    /\ UNCHANGED <<usePreDrive, rateLimitStore, allowedLog, Memory, Storage, issued, inflight,
                   last>>

\* the limit of the sweep read as seconds
StaleAfterSeconds(data, t) == t - data.createdAt > SESSION_EXPIRY_MS \div 1000

\* a session swept as soon as it is as old as the limit
SweptAtLimit(data, t) == t - data.createdAt >= SESSION_EXPIRY_MS

\* now - data.createdAt > SESSION_EXPIRY_MS
SessionStale(data, t) == t - data.createdAt > SESSION_EXPIRY_MS

\* the setInterval callback that cleans the session store
SessionCleanup ==
    /\ sessionStore' =
        [s \in {x \in DOMAIN sessionStore : ~SessionStale(sessionStore[x], now)}
            |-> sessionStore[s]]
    /\ UNCHANGED <<now, usePreDrive, rateLimitStore, allowedLog, fileLocks, demoFiles, Storage, issued,
                   inflight, last>>

\* the process stops and starts again: the Maps are built anew and suspended
\* handlers are gone; the disk, PreDrive and the clients' tokens stay
Restart ==
    /\ fileLocks' = [f \in MapKeys |-> Absent]
    /\ sessionStore' = <<>>
    /\ demoFiles' = [f \in MapKeys |-> Absent]
    /\ rateLimitStore' = <<>>
    /\ inflight' = {}
    /\ last' = NoAnswer
    /\ UNCHANGED <<now, usePreDrive, allowedLog, Storage, issued>>

----------------------------------------------------------------------------
(* Spec: the lock operations and DELETE on one file, the clock standing still. *)
(* Every token is for FileA and its PreDrive node; usePreDrive decides          *)
(* whether DELETE goes to PreDrive.                                             *)

MaxSessions == 1                            \* access tokens issued in one run
AccessTokens == 1..MaxSessions              \* issued, or not yet and so invalid

Issue == \E sid \in 1..MaxSessions : ApiEdit("u1", PathA, "n1", TRUE, sid)

Lock == \E tok \in AccessTokens, l \in LockHeaders :
            WopiPost(FileA, tok, "LOCK", l, Undefined)

GetLock == \E tok \in AccessTokens : WopiPost(FileA, tok, "GET_LOCK", Undefined, Undefined)

RefreshLock == \E tok \in AccessTokens, l \in LockHeaders :
            WopiPost(FileA, tok, "REFRESH_LOCK", l, Undefined)

Unlock == \E tok \in AccessTokens, l \in LockHeaders :
            WopiPost(FileA, tok, "UNLOCK", l, Undefined)

Relock == \E tok \in AccessTokens, l \in LockHeaders, old \in LockHeaders :
            WopiPost(FileA, tok, "UNLOCK_AND_RELOCK", l, old)

Delete == \E tok \in AccessTokens, l \in LockHeaders :
            WopiPost(FileA, tok, "DELETE", l, Undefined)

\* X-WOPI-Override missing, or a value that is no case of the switch
UnknownOverrides == {Undefined, "NO_SUCH_OPERATION", "lock"}

Unknown == \E tok \in AccessTokens, o \in UnknownOverrides :
            WopiPost(FileA, tok, o, Undefined, Undefined)

DeleteSettles == \E h \in inflight, ok \in BOOLEAN : DeleteSettled(h, ok)

Next ==
    \/ Issue \/ Lock \/ GetLock \/ RefreshLock \/ Unlock \/ Relock \/ Delete
    \/ Unknown \/ DeleteSettles

Spec == Init /\ [][Next]_vars

\* the requests the lock switch answered
Switched(ops) == last.op \in ops /\ last.status \notin {400, 401}

\* C1: of two LOCK requests with different tokens that reach an unlocked file
\* one after the other, the first takes the lock with 200 and the second is
\* answered 409 with the first one's token in X-WOPI-Lock; the lock table then
\* holds the first one's token.
C1_OneLockWinner ==
    (Switched({"LOCK"}) /\ Truthy(last.prior) /\ last.lockId # last.prior)
    => /\ last.status = 409
       /\ last.hdrLock = last.prior
       /\ fileLocks[last.fileId] = last.prior

C1_Witness ==
    /\ Switched({"LOCK"})
    /\ last.prior \in LockTokens
    /\ last.lockId \in LockTokens \ {last.prior}
    /\ last.status = 409

\* the token a lock operation must present: X-WOPI-OldLock for
\* UNLOCK_AND_RELOCK, X-WOPI-Lock for the others
Presented == IF last.op = "UNLOCK_AND_RELOCK" THEN last.oldLockId ELSE last.lockId

\* C2: on a file locked with t, a LOCK, REFRESH_LOCK or UNLOCK whose X-WOPI-Lock
\* is not t, and an UNLOCK_AND_RELOCK whose X-WOPI-OldLock is not t, is answered
\* 409 with X-WOPI-Lock = t, and the lock table still holds t.
C2_MismatchRefused ==
    (/\ Switched({"LOCK", "REFRESH_LOCK", "UNLOCK", "UNLOCK_AND_RELOCK"})
     /\ last.cur \in LockTokens
     /\ Presented # last.cur)
    => /\ last.status = 409
       /\ last.hdrLock = last.cur
       /\ fileLocks[last.fileId] = last.cur

C2_Witness ==
    /\ Switched({"UNLOCK_AND_RELOCK"})
    /\ last.cur \in LockTokens
    /\ last.oldLockId \in LockTokens \ {last.cur}
    /\ last.lockId = last.cur
    /\ last.status = 409
    /\ fileLocks[last.fileId] = last.cur

\* C3: once a file is locked with t, its lock record is released or replaced
\* only by the answer to an UNLOCK, UNLOCK_AND_RELOCK or DELETE on that file
\* that presented t and whose handler read t as the current lock.
C3_ReleasedOnlyByHolder ==
    [][\A f \in FileIds :
        (fileLocks[f] \in LockTokens /\ fileLocks'[f] # fileLocks[f])
        => /\ last'.op \in {"UNLOCK", "UNLOCK_AND_RELOCK", "DELETE"}
           /\ last'.fileId = f
           /\ last'.status = 200
           /\ last'.cur = fileLocks[f]
           /\ (IF last'.op = "UNLOCK_AND_RELOCK" THEN last'.oldLockId
               ELSE last'.lockId) = fileLocks[f]]_vars

----------------------------------------------------------------------------
(* SpecContent: the content of one file through the three storage          *)
(* strategies, with LOCK and UNLOCK to put the file in either lock state.   *)

Contents == {"b1"}                          \* the bodies PutFile carries

LockHeld == \E tok \in AccessTokens : WopiPost(FileA, tok, "LOCK", "t1", Undefined)

LockLeft == \E tok \in AccessTokens : WopiPost(FileA, tok, "UNLOCK", "t1", Undefined)

Get == \E tok \in AccessTokens, ok \in BOOLEAN : GetFile(FileA, tok, ok)

Put == \E tok \in AccessTokens, l \in LockHeaders, c \in Contents :
            PutFile(FileA, tok, l, c)

PutSettles == \E h \in inflight, ok \in BOOLEAN : PutFileSettled(h, ok)

NextContent ==
    \/ Issue \/ LockHeld \/ LockLeft \/ Get \/ Put \/ PutSettles
    \/ Delete \/ DeleteSettles

SpecContent == Init /\ [][NextContent]_vars

\* what the three storage strategies hold
Stored == <<disk, remote, demoFiles>>

\* C4: a PutFile on a file locked with t whose X-WOPI-Lock is another token or
\* is missing is answered 409 with X-WOPI-Lock = t; it writes nothing to
\* PreDrive, to the local disk or to the in-memory copy, and starts no upload.
C4_WrongLockWritesNothing ==
    [][\A tok \in AccessTokens, l \in LockHeaders, c \in Contents :
        (/\ PutFile(FileA, tok, l, c)
         /\ requireWopiAuth(tok) = 0
         /\ fileLocks[FileA] \in LockTokens
         /\ l # fileLocks[FileA])
        => /\ last'.op = "PutFile"
           /\ last'.status = 409
           /\ last'.hdrLock = fileLocks[FileA]
           /\ UNCHANGED <<Stored, fileLocks, inflight>>]_vars

C4_Witness ==
    /\ last.op = "PutFile"
    /\ last.status = 409
    /\ last.cur \in LockTokens
    /\ last.lockId = Undefined
    /\ last.hdrLock = last.cur
    /\ remote["n1"] = InitialContent
    /\ inflight = {}

\* C5: a DELETE on a file locked with t whose X-WOPI-Lock is not t is answered
\* 409 with X-WOPI-Lock = t; it deletes nothing from PreDrive or the local
\* disk, sends no delete to PreDrive and leaves the lock record.  A DELETE
\* that passes the handler's lock check found the file unlocked or presented
\* the holder's token.
C5_WrongLockDeletesNothing ==
    [][\A tok \in AccessTokens, l \in LockHeaders :
        (WopiPost(FileA, tok, "DELETE", l, Undefined) /\ requireWopiAuth(tok) = 0)
        => IF fileLocks[FileA] \in LockTokens /\ l # fileLocks[FileA]
           THEN /\ last'.op = "DELETE"
                /\ last'.status = 409
                /\ last'.hdrLock = fileLocks[FileA]
                /\ UNCHANGED <<Stored, fileLocks, inflight>>
           ELSE \/ last'.op = "DELETE" /\ last'.status = 200
                \/ inflight' # inflight /\ UNCHANGED last]_vars

C5_Witness ==
    /\ last.op = "DELETE"
    /\ last.status = 409
    /\ last.cur \in LockTokens
    /\ last.lockId \in LockTokens \ {last.cur}
    /\ fileLocks[last.fileId] = last.cur
    /\ disk[StoragePath(last.fileId)] # Absent

\* C6: when a DELETE has been answered 200 the file has no lock record, and
\* GetFile on it sends no stored bytes, whether PreDrive answers or not.
C6_DeletedEverywhere ==
    (last.op = "DELETE" /\ last.status = 200)
    => /\ fileLocks[last.fileId] = Absent
       /\ \A ok \in BOOLEAN : GetFileContent(last.fileId, last.tok, ok) = EmptyContent

\* C13: a PutFile that was acknowledged with an ItemVersion, followed by a
\* GetFile with the same token while no write and no delete is under way or
\* has been answered in between, has GetFile send exactly the bytes that
\* were put, whether PreDrive answers the download or not.
C13_RoundTrip ==
    [][\A tok \in AccessTokens, ok \in BOOLEAN :
        (/\ last.op = "PutFile" /\ last.status = 200
         /\ last.tok = tok /\ last.fileId = FileA
         /\ inflight = {}
         /\ GetFile(FileA, tok, ok))
        => (last'.status = 200 /\ last'.body = last.sent)]_vars

----------------------------------------------------------------------------
(* SpecAuth: access tokens over time.  The clock moves through the instants *)
(* around a token's expiry, the session sweep runs, the process restarts,   *)
(* and each protocol endpoint is asked with a token and without one.        *)

Instants == {0, 500, 14399500, 14400000, 14400500}     \* Date.now() values
Bearers == AccessTokens \cup {NoToken}

InfoBy(tok) == CheckFileInfo(FileA, tok, TRUE)
GetBy(tok) == GetFile(FileA, tok, TRUE)
PutBy(tok) == PutFile(FileA, tok, Undefined, "b1")
PostBy(tok) == WopiPost(FileA, tok, "GET_LOCK", Undefined, Undefined)

\* a request to one of the four protocol endpoints
RequestBy(tok) == InfoBy(tok) \/ GetBy(tok) \/ PutBy(tok) \/ PostBy(tok)

Clock == \E t \in Instants : Tick(t)
AuthInfo == \E tok \in Bearers : InfoBy(tok)
AuthGet == \E tok \in Bearers : GetBy(tok)
AuthPut == \E tok \in Bearers : PutBy(tok)
AuthPost == \E tok \in Bearers : PostBy(tok)

NextAuth ==
    \/ Issue \/ Clock \/ SessionCleanup \/ Restart
    \/ AuthInfo \/ AuthGet \/ AuthPut \/ AuthPost \/ PutSettles

SpecAuth == Init /\ [][NextAuth]_vars

\* the step answers 401 and does nothing else
Rejected ==
    /\ last'.status = 401
    /\ UNCHANGED <<now, usePreDrive, rateLimitStore, allowedLog, Memory, Storage, issued, inflight>>

\* C7: on every protocol endpoint a request whose token verifies (signature
\* and expiry) but whose session is not in the session store is answered 401
\* and has no effect.
C7_OrphanedTokenRejected ==
    [][\A tok \in AccessTokens :
        (RequestBy(tok) /\ JwtVerifies(tok, now) /\ tok \notin DOMAIN sessionStore)
        => Rejected]_vars

C7_Witness ==
    /\ last.op \in {"CheckFileInfo", "GetFile", "PutFile", "GET_LOCK"}
    /\ last.status = 401
    /\ last.tok \in DOMAIN issued
    /\ last.at \div 1000 < issued[last.tok].exp
    /\ last.tok \notin DOMAIN sessionStore

\* C8 as stated: a token whose session is in the store is accepted at every
\* instant less than T = 4 h after it was issued and rejected at every instant
\* T or more after it was issued.
C8_AcceptedUntilTtl ==
    [][\A tok \in AccessTokens :
        (RequestBy(tok) /\ tok \in DOMAIN issued /\ tok \in DOMAIN sessionStore)
        => (Rejected <=>
                now - issued[tok].issuedAt >= JWT_TOKEN_EXPIRY * 1000)]_vars

\* C8, amended: a token whose session is in the store is accepted while the
\* clock, in whole seconds, is less than the second of its issue plus 14400,
\* and rejected with 401 from that second on: so it is accepted at every
\* instant up to 4 h less one second after its issue, and rejected at every
\* instant 4 h or more after its issue.
C8_AcceptedUntilExpSecond ==
    [][\A tok \in AccessTokens :
        (RequestBy(tok) /\ tok \in DOMAIN issued /\ tok \in DOMAIN sessionStore)
        => /\ Rejected <=>
                now \div 1000 >= issued[tok].issuedAt \div 1000 + JWT_TOKEN_EXPIRY
           /\ now - issued[tok].issuedAt >= JWT_TOKEN_EXPIRY * 1000
                => Rejected
           /\ now - issued[tok].issuedAt <= (JWT_TOKEN_EXPIRY - 1) * 1000
                => ~Rejected]_vars

C8_Witness ==
    /\ last.op \in {"CheckFileInfo", "GetFile", "PutFile", "GET_LOCK"}
    /\ last.status = 401
    /\ last.tok \in DOMAIN issued
    /\ last.tok \in DOMAIN sessionStore
    /\ last.at = now
    /\ now - issued[last.tok].issuedAt < JWT_TOKEN_EXPIRY * 1000

----------------------------------------------------------------------------
(* SpecScope: tokens issued for FileA, presented on FileA and on FileB.     *)

ScopeLock == \E tok \in AccessTokens, f \in FileIds :
            WopiPost(f, tok, "LOCK", "t1", Undefined)

ScopePut == \E tok \in AccessTokens, f \in FileIds :
            PutFile(f, tok, Undefined, "b1")

ScopeGet == \E tok \in AccessTokens, f \in FileIds : GetFile(f, tok, TRUE)

ScopeDelete == \E tok \in AccessTokens, f \in FileIds :
            WopiPost(f, tok, "DELETE", Undefined, Undefined)

NextScope ==
    \/ Issue \/ ScopeLock \/ ScopePut \/ PutSettles \/ ScopeGet
    \/ ScopeDelete \/ DeleteSettles

SpecScope == Init /\ [][NextScope]_vars

\* C9: a request that presents a token issued for one file on the URL of
\* another file is answered with a refusal; it changes neither that file's
\* lock record nor any stored content, and starts no upload or delete.
C9_TokenBoundToFile ==
    [][\A tok \in AccessTokens, f \in FileIds :
        (/\ tok \in DOMAIN issued
         /\ issued[tok].fileId # f
         /\ \/ WopiPost(f, tok, "LOCK", "t1", Undefined)
            \/ PutFile(f, tok, Undefined, "b1")
            \/ GetFile(f, tok, TRUE)
            \/ WopiPost(f, tok, "DELETE", Undefined, Undefined))
        => /\ last'.status \in {400, 401, 403, 404}
           /\ UNCHANGED <<fileLocks, Stored, inflight>>]_vars

----------------------------------------------------------------------------
(* SpecSessions: two users open documents, one session for each opening.    *)

MaxIssued == 11                             \* tokens issued in one run
Users == {"u1", "u2"}

SessionIssue == \E user \in Users, sid \in 1..MaxIssued :
            ApiEdit(user, PathA, "n1", TRUE, sid)

NextSessions == SessionIssue \/ SessionCleanup

SpecSessions == Init /\ [][NextSessions]_vars

\* the sessions of a user in the session store
SessionsOf(user) == {s \in DOMAIN sessionStore : sessionStore[s].userId = user}

\* C10: no user ever has more than MAX_SESSIONS_PER_USER sessions in the
\* session store.
C10_SessionCap ==
    \A user \in Users : Cardinality(SessionsOf(user)) <= MAX_SESSIONS_PER_USER

----------------------------------------------------------------------------
(* SpecSecret: what the clients are sent.  One user opens, creates and copies *)
(* files under either of two storage credentials, and asks for the file's     *)
(* information, its content and its lock.                                     *)

MaxSecretSessions == 2                      \* access tokens issued

Credentials == {Credential(u) : u \in Users}
SecretTokens == 1..MaxSecretSessions

SecretEdit ==
    \E c \in Credentials, nodeId \in NodeIds \cup {Undefined}, sid \in SecretTokens :
        ApiEditAs("u1", c, PathA, nodeId, TRUE, sid)
SecretCreate ==
    \E c \in Credentials, created \in BOOLEAN, sid \in SecretTokens :
        ApiCreate("u1", c, NameNew, <<>>, created, sid)
SecretPutRelative ==
    \E tok \in SecretTokens, sid \in SecretTokens :
        WopiPutRelative(FileA, tok, NameNew, <<>>, "b1", TRUE, sid)
SecretInfo == \E tok \in SecretTokens, fetchOk \in BOOLEAN : CheckFileInfo(FileA, tok, fetchOk)
SecretGet == \E tok \in SecretTokens : GetFile(FileA, tok, TRUE)
SecretLock == \E tok \in SecretTokens : WopiPost(FileA, tok, "LOCK", "t1", Undefined)

NextSecret ==
    SecretEdit \/ SecretCreate \/ SecretPutRelative \/ SecretInfo \/ SecretGet
    \/ SecretLock

SpecSecret == Init /\ [][NextSecret]_vars

----------------------------------------------------------------------------
(* SpecSweep: sessions are made at several instants and the sweep runs at any *)
(* instant.                                                                   *)

MaxSwept == 3                               \* sessions made in one run

SweepIssue == \E sid \in 1..MaxSwept : ApiEdit("u1", PathA, "n1", TRUE, sid)

NextSweep == SweepIssue \/ Clock \/ SessionCleanup

SpecSweep == Init /\ [][NextSweep]_vars

\* C12: a run of the session sweep leaves in the store no session older than
\* SESSION_EXPIRY_MS, and every session that is not older than that stays in
\* the store as it was.
C12_SweepRemovesTheOld ==
    [][SessionCleanup =>
        /\ \A s \in DOMAIN sessionStore' :
                now - sessionStore'[s].createdAt <= SESSION_EXPIRY_MS
        /\ \A s \in DOMAIN sessionStore :
                now - sessionStore[s].createdAt <= SESSION_EXPIRY_MS
                    => /\ s \in DOMAIN sessionStore'
                       /\ sessionStore'[s] = sessionStore[s]]_vars

\* a sweep has removed a session and kept one that is exactly as old as the limit
C12_Witness ==
    /\ \E s \in DOMAIN issued : s \notin DOMAIN sessionStore
    /\ \E s \in DOMAIN sessionStore : now - sessionStore[s].createdAt = SESSION_EXPIRY_MS

----------------------------------------------------------------------------
(* SpecStore: PutFile on one file while the clock moves, PreDrive takes or    *)
(* refuses the upload and reports a version or none, and the local disk takes *)
(* or refuses the write.                                                      *)

StoreInstants == {1}                        \* Date.now() values
RemoteVersions == {1, 2}                    \* result.version

StoreClock == \E t \in StoreInstants : Tick(t)
StorePut ==
    \E tok \in AccessTokens, l \in {Undefined, "t1"}, c \in Contents, written \in BOOLEAN :
        PutFileTo(FileA, tok, l, c, written)
StoreSettles ==
    \E h \in inflight, stored \in BOOLEAN, written \in BOOLEAN,
       version \in RemoteVersions \cup {NoVersion} :
        PutFileSettledTo(h, stored, written, version)

NextStore == Issue \/ StoreClock \/ StorePut \/ StoreSettles

SpecStore == Init /\ [][NextStore]_vars

\* C14: PutFile answers 200 with an ItemVersion only when the bytes are in
\* PreDrive or on the local disk by then; after an upload that failed or timed
\* out, a 200 is sent only with the bytes on the local disk; and when neither
\* took the bytes the answer is an error without an ItemVersion and nothing
\* is stored.
C14_AckOnlyAfterStored ==
    [][/\ \A tok \in AccessTokens, l \in {Undefined, "t1"}, c \in Contents,
            written \in BOOLEAN :
            (PutFileTo(FileA, tok, l, c, written) /\ inflight' = inflight)
            => /\ last'.status = 200 => (written /\ disk'[getStoragePath(FileA)] = c)
               /\ last'.status # 200 => (last'.body = NoBody /\ UNCHANGED Stored)
               /\ ~written => last'.status # 200
       /\ \A h \in inflight, stored \in BOOLEAN, written \in BOOLEAN,
            version \in RemoteVersions \cup {NoVersion} :
            PutFileSettledTo(h, stored, written, version)
            => /\ last'.status = 200
                    => \/ stored /\ remote'[h.nodeId] = h.content
                       \/ written /\ disk'[getStoragePath(h.fileId)] = h.content
               /\ (~stored /\ last'.status = 200)
                    => disk'[getStoragePath(h.fileId)] = h.content
               /\ last'.status # 200 => (last'.body = NoBody /\ UNCHANGED Stored)
               /\ (~stored /\ ~written) => last'.status = 500]_vars

\* PutFile was acknowledged after the upload failed, with the bytes on the
\* local disk and not in PreDrive
C14_Witness ==
    /\ last.op = "PutFile"
    /\ last.status = 200
    /\ usePreDrive
    /\ disk[StoragePath(FileA)] = last.sent
    /\ remote[AuthNodeId(last.tok)] = InitialContent

\* C16: of two PutFile calls on the same file that are acknowledged one after
\* the other, the second is given a greater ItemVersion than the first.
C16_VersionIncreases ==
    [][(/\ last.op = "PutFile" /\ last.status = 200
        /\ last'.op = "PutFile" /\ last'.status = 200
        /\ last'.fileId = last.fileId
        /\ last' # last)
       => last'.body > last.body]_vars

----------------------------------------------------------------------------
(* SpecFileId: validateFileId on the encodings of short paths, of paths under *)
(* /etc, /root and /var, and on raw ids that are no well-formed encoding.     *)

MaxPathLen == 4                             \* characters of a drawn path

PathChars == {46, 47, 97}                   \* '.', '/', 'a'
ShortPaths ==
    UNION {[1..n -> PathChars] : n \in 0..MaxPathLen}
    \cup {<<0>>, <<97, 0>>, <<0, 47, 97>>}  \* paths with a NUL
SystemPaths ==
    {pre \o <<c>> : pre \in {<<47, 101, 116, 99, 47>>, <<47, 114, 111, 111, 116, 47>>,
                              <<47, 118, 97, 114, 47>>, <<47, 101, 116, 99>>},
                    c \in PathChars}
RawFileIds ==
    {Base64Encode(path) : path \in ShortPaths \cup SystemPaths}
    \cup {<<33>>, <<89, 83, 32, 52>>, <<76, 105, 52>>, <<89, 83, 52, 61, 76, 105, 52>>}

\* validateFileId on these raw ids, computed once
RawValidations == [raw \in RawFileIds |-> validateFileId(raw)]

\* validateFileId(raw) is called and what it returns is kept
ValidateCall(raw) ==
    /\ last' = Answer("validateFileId", raw, NoToken, Undefined, Undefined, Undefined,
                      0, Undefined, RawValidations[raw])
    /\ UNCHANGED <<now, usePreDrive, rateLimitStore, allowedLog, Memory, Storage, issued, inflight>>

Validate == \E raw \in RawFileIds : ValidateCall(raw)

NextFileId == Validate

SpecFileId == Init /\ [][NextFileId]_vars

\* the raw id is the encoding of what it decodes to, and is within the
\* length bound
WellFormed(raw) == Len(raw) <= MaxFileIdLength /\ raw = Base64Encode(Base64Decode(raw))

HasTraversal(path) ==
    \/ \E i \in 1..(Len(path) - 1) : path[i] = 46 /\ path[i + 1] = 46
    \/ \E i \in 1..Len(path) : path[i] = 0

\* the path starts with /etc/, /root/ or /var/, or contains /./
HasSystemPrefix(path) ==
    \/ \E pre \in {<<47, 101, 116, 99, 47>>, <<47, 114, 111, 111, 116, 47>>,
                    <<47, 118, 97, 114, 47>>} :
            Len(path) >= Len(pre) /\ SubSeq(path, 1, Len(pre)) = pre
    \/ \E i \in 1..(Len(path) - 2) : path[i] = 47 /\ path[i + 1] = 46 /\ path[i + 2] = 47

\* C17 as stated: validateFileId answers valid=false for every raw id whose
\* decoded path contains '..' or NUL, and valid=true with the decoded path for
\* every well-formed encoding of a path that contains neither.
C17_RejectsTraversalOnly ==
    last.op = "validateFileId" =>
        LET decoded == Base64Decode(last.fileId) IN
        /\ HasTraversal(decoded) => ~last.body.valid
        /\ (WellFormed(last.fileId) /\ ~HasTraversal(decoded))
                => last.body = [valid |-> TRUE, path |-> decoded]

\* C17 amended: validateFileId answers valid=false for every raw id whose
\* decoded path contains '..' or NUL, and also for the empty id and for every
\* id whose decoded path starts with /etc/, /root/ or /var/ or contains /./;
\* it answers valid=true with the decoded path for every other well-formed
\* encoding.
C17_RejectsTraversalAndSystemPaths ==
    last.op = "validateFileId" =>
        LET decoded == Base64Decode(last.fileId) IN
        /\ (HasTraversal(decoded) \/ HasSystemPrefix(decoded) \/ last.fileId = <<>>)
                => ~last.body.valid
        /\ (/\ WellFormed(last.fileId) /\ last.fileId # <<>>
            /\ ~HasTraversal(decoded) /\ ~HasSystemPrefix(decoded))
                => last.body = [valid |-> TRUE, path |-> decoded]

\* the encoding of a path under /etc/ was refused
C17_Witness ==
    /\ last.op = "validateFileId"
    /\ WellFormed(last.fileId)
    /\ HasSystemPrefix(Base64Decode(last.fileId))
    /\ ~HasTraversal(Base64Decode(last.fileId))
    /\ ~last.body.valid

----------------------------------------------------------------------------
(* SpecInvalid: the four protocol endpoints are asked for FileA and for       *)
(* FileUp, whose decoded path is "../x", with a token and without one.        *)

AskedFileIds == {FileA, FileUp}
AskedOverrides == {"LOCK", "GET_LOCK", "DELETE"}

InvalidInfo == \E f \in AskedFileIds, tok \in Bearers : CheckFileInfo(f, tok, TRUE)
InvalidGet == \E f \in AskedFileIds, tok \in Bearers : GetFile(f, tok, TRUE)
InvalidPut == \E f \in AskedFileIds, tok \in Bearers : PutFile(f, tok, Undefined, "b1")
InvalidPost ==
    \E f \in AskedFileIds, tok \in Bearers, override \in AskedOverrides :
        WopiPost(f, tok, override, "t1", Undefined)

NextInvalid ==
    \/ Issue \/ InvalidInfo \/ InvalidGet \/ InvalidPut \/ InvalidPost
    \/ PutSettles \/ DeleteSettles

SpecInvalid == Init /\ [][NextInvalid]_vars

\* C18: on CheckFileInfo, GetFile, PutFile and the POST overrides, a request
\* with an accepted token whose fileId fails validateFileId is answered 400,
\* and it changes neither the lock table nor the local disk, demoFiles or
\* PreDrive, and leaves no handler waiting on a call to PreDrive.
C18_InvalidFileIdTouchesNothing ==
    [][\A tok \in AccessTokens :
        (/\ requireWopiAuth(tok) = 0
         /\ ~Validations[FileUp].valid
         /\ \/ CheckFileInfo(FileUp, tok, TRUE)
            \/ GetFile(FileUp, tok, TRUE)
            \/ PutFile(FileUp, tok, Undefined, "b1")
            \/ \E override \in AskedOverrides :
                    WopiPost(FileUp, tok, override, "t1", Undefined))
        => /\ last'.status = 400
           /\ last'.fileId = FileUp
           /\ UNCHANGED <<fileLocks, sessionStore, demoFiles, disk, remote, nodeNames,
                          inflight>>]_vars

\* a DELETE for the invalid file id was answered 400 while the valid file is
\* locked and stored
C18_Witness ==
    /\ last.op = "DELETE"
    /\ last.fileId = FileUp
    /\ last.status = 400
    /\ fileLocks[FileA] = "t1"
    /\ demoFiles[FileA] = "b1" \/ remote["n1"] = "b1"

----------------------------------------------------------------------------
(* SpecNames: RENAME_FILE with short names made of '/', dots, a control        *)
(* character and a letter, with '../../etc/passwd' and a path with '\'; and   *)
(* sanitizeFilename on the same names and on names around the length limit.   *)

MaxNameLen == 2                             \* characters of a drawn short name

NameChars == {47, 46, 9, 97}                \* '/', '.', TAB, 'a'
ShortNames == UNION {[1..n -> NameChars] : n \in 0..MaxNameLen}
Passwd == <<112, 97, 115, 115, 119, 100>>   \* "passwd"
UpUpEtcPasswd == <<46, 46, 47, 46, 46, 47, 101, 116, 99, 47>> \o Passwd
LongNames ==
    {[i \in 1..256 |-> 97],                                     \* 256 letters
     [i \in 1..252 |-> 97] \o <<46, 111, 100, 116>>,            \* 252 letters, ".odt"
     [i \in 1..236 |-> 97] \o <<46>> \o [i \in 1..20 |-> 98]}   \* a 20-letter extension
WindowsPath == <<97, 92, 46, 46, 92>> \o Passwd               \* "a\..\passwd"
RequestedNames == ShortNames \cup {UpUpEtcPasswd, WindowsPath}
SanitizeArgs == RequestedNames \cup LongNames

\* sanitizeFilename on these names, computed once
Sanitized == [name \in SanitizeArgs |-> sanitizeFilename(name)]

Rename ==
    \E tok \in AccessTokens, name \in RequestedNames, patched \in BOOLEAN :
        WopiRename(FileA, tok, name, patched)

\* sanitizeFilename(name) is called and what it returns is kept
SanitizeCall(name) ==
    /\ last' = [Answer("sanitizeFilename", <<>>, NoToken, Undefined, Undefined,
                       Undefined, 0, Undefined, Sanitized[name])
                EXCEPT !.sent = name]
    /\ UNCHANGED <<now, usePreDrive, rateLimitStore, allowedLog, Memory, Storage, issued, inflight>>

Sanitize == \E name \in SanitizeArgs : SanitizeCall(name)

NextNames == Issue \/ Rename \/ Sanitize

SpecNames == Init /\ [][NextNames]_vars

\* not empty, no '/' and no '\', no control character
SafeName(name) ==
    /\ name # <<>>
    /\ \A i \in 1..Len(name) : name[i] \notin {47, 92} /\ name[i] > 31 /\ name[i] # 127

\* the step is one in which RENAME_FILE, sent with an accepted token, is answered
Renamed == last' # last /\ last'.op = "RENAME_FILE" /\ last'.status # 401

\* the step touches no stored object but the name of the token's own node
OnlyOwnNode(tok) ==
    /\ \A n \in RemoteNodes : n # issued[tok].nodeId => nodeNames'[n] = nodeNames[n]
    /\ UNCHANGED <<disk, remote, demoFiles, fileLocks>>

\* C19 as stated: RENAME_FILE with an accepted token answers 400, or answers
\* 200 with a safe name to which it has renamed the token's node;
\* '../../etc/passwd' gives 'passwd'; nothing else that is stored is touched.
C19_RenamedSafelyOr400 ==
    [][Renamed =>
        /\ \/ last'.status = 400
           \/ /\ last'.status = 200
              /\ SafeName(last'.body.Name)
              /\ (usePreDrive /\ issued[last'.tok].nodeId # NoNode)
                    => nodeNames'[issued[last'.tok].nodeId] = last'.body.Name
        /\ last'.sent = UpUpEtcPasswd
                => (last'.status = 200 /\ last'.body.Name = Passwd)
        /\ OnlyOwnNode(last'.tok)]_vars

\* C19 amended: RENAME_FILE with an accepted token answers 400, or answers 200
\* with a safe name, to which it has renamed the token's node when PreDrive is
\* in use, or answers 500 when PreDrive did not carry out the rename, and
\* then no name has changed; '../../etc/passwd' gives 'passwd' whenever the
\* answer is 200; nothing else that is stored is touched.
C19_RenamedSafelyOrRefused ==
    [][Renamed =>
        /\ \/ last'.status = 400 /\ UNCHANGED nodeNames
           \/ /\ last'.status = 200
              /\ SafeName(last'.body.Name)
              /\ IF usePreDrive /\ issued[last'.tok].nodeId # NoNode
                 THEN nodeNames'[issued[last'.tok].nodeId] = last'.body.Name
                 ELSE UNCHANGED nodeNames
           \/ /\ last'.status = 500
              /\ usePreDrive /\ issued[last'.tok].nodeId # NoNode
              /\ UNCHANGED nodeNames
        /\ (last'.sent = UpUpEtcPasswd /\ last'.status = 200) => last'.body.Name = Passwd
        /\ OnlyOwnNode(last'.tok)]_vars

\* '../../etc/passwd' was asked for and the node is now called 'passwd'
C19_Witness ==
    /\ last.op = "RENAME_FILE"
    /\ last.status = 200
    /\ last.sent = UpUpEtcPasswd
    /\ last.body.Name = Passwd
    /\ nodeNames[AuthNodeId(last.tok)] = Passwd

\* C20: sanitizeFilename returns no name longer than MAX_FILENAME_LENGTH, and
\* a name it has shortened ends with a dot and what followed the last dot of
\* the name.
C20_AtMostMaxLength ==
    (last.op = "sanitizeFilename" /\ last.body # NullName)
    => LET full == ReplaceDangerous(TrimDotsAndSpaces(StripControl(
                        SplitPop(SplitPop(last.sent, 47), 92))))
           ext == <<46>> \o SplitPop(full, 46)
       IN /\ Len(last.body) <= MAX_FILENAME_LENGTH
          /\ Len(last.body) < Len(full)
                => SubSeqFrom(last.body, Len(last.body) - Len(ext) + 1) = ext

----------------------------------------------------------------------------
(* The rate limiter: createRateLimiter and the four limiters made with it.  *)
(* A limiter runs before the route's authentication and handler; it either  *)
(* calls next() or answers 429 itself.                                      *)

API_RATE_LIMIT_WINDOW_MS == 60000
API_RATE_LIMIT_MAX == 60
EDIT_RATE_LIMIT_MAX == 30
CREATE_RATE_LIMIT_MAX == 20
WOPI_RATE_LIMIT_MAX == 100

\* Math.ceil(ms / 1000)
CeilSeconds(ms) == (ms + 999) \div 1000

\* setRateLimitHeaders called with four arguments: retryAfter is undefined
Omitted == -1

\* the headers set on the response, by name
setRateLimitHeaders(limit, remaining, windowMs, retryAfter) ==
    LET shown == IF remaining > 0 THEN remaining ELSE 0
        three == [h \in {"X-RateLimit-Limit", "X-RateLimit-Remaining",
                         "X-RateLimit-Reset"} |->
                     CASE h = "X-RateLimit-Limit" -> limit
                       [] h = "X-RateLimit-Remaining" -> shown
                       [] OTHER -> CeilSeconds(now + windowMs)]
    IN IF retryAfter # Omitted /\ retryAfter # 0
       THEN ("Retry-After" :> retryAfter) @@ three
       ELSE three

\* refused one request late
OverLimitByTwo(count, max) == count > max + 1

\* record.count > max
OverLimit(count, max) == count > max

\* what the limiter did with a request: next is TRUE when it called next(),
\* throttled when the record it found had counted more than max requests
RateAnswer(keyPrefix, ip, next, status, headers, json, throttled) ==
    Answer("RATE_LIMIT", <<>>, NoToken, Undefined, Undefined, Undefined, status,
           Undefined, [keyPrefix |-> keyPrefix, ip |-> ip, next |-> next,
                       headers |-> headers, json |-> json, throttled |-> throttled])

\* the limiter with a refused request starting the window again
createRateLimiterExtending(windowMs, max, keyPrefix, ip) ==
    LET key == RateKey(keyPrefix, ip)
        throttled == key \in DOMAIN rateLimitStore /\ rateLimitStore[key].count > max
    IN /\ IF key \notin DOMAIN rateLimitStore
             \/ now - rateLimitStore[key].startTime > windowMs
          THEN /\ rateLimitStore' =
                      (key :> [count |-> 1, startTime |-> now]) @@ rateLimitStore
               /\ last' = RateAnswer(keyPrefix, ip, TRUE, 0,
                              setRateLimitHeaders(max, max - 1, windowMs, Omitted),
                              NoBody, throttled)
          ELSE LET record == rateLimitStore[key]
                   count == record.count + 1
                   retryAfter == CeilSeconds(windowMs)
               IN IF OverLimit(count, max)
                  THEN /\ rateLimitStore' =
                              [rateLimitStore EXCEPT ![key] =
                                    [count |-> count, startTime |-> now]]
                       /\ last' = RateAnswer(keyPrefix, ip, FALSE, 429,
                                      setRateLimitHeaders(max, 0, windowMs, retryAfter),
                                      [error |-> "Too Many Requests",
                                       retryAfter |-> retryAfter], throttled)
                  ELSE /\ rateLimitStore' = [rateLimitStore EXCEPT ![key].count = count]
                       /\ last' = RateAnswer(keyPrefix, ip, TRUE, 0,
                                      setRateLimitHeaders(max, max - count, windowMs,
                                                          Omitted),
                                      NoBody, throttled)
       /\ UNCHANGED <<now, usePreDrive, Memory, Storage, issued, inflight>>

\* allowedLog is a record kept of the limiter's answers, not state of the
\* code: the specification that applies the limiter says what it records
createRateLimiter(windowMs, max, keyPrefix, ip) ==
    LET key == RateKey(keyPrefix, ip)
        throttled == key \in DOMAIN rateLimitStore /\ rateLimitStore[key].count > max
    IN /\ IF key \notin DOMAIN rateLimitStore
             \/ now - rateLimitStore[key].startTime > windowMs
          THEN /\ rateLimitStore' =
                      (key :> [count |-> 1, startTime |-> now]) @@ rateLimitStore
               /\ last' = RateAnswer(keyPrefix, ip, TRUE, 0,
                              setRateLimitHeaders(max, max - 1, windowMs, Omitted),
                              NoBody, throttled)
          ELSE LET record == rateLimitStore[key]
                   count == record.count + 1
                   retryAfter == CeilSeconds(record.startTime + windowMs - now)
               IN /\ rateLimitStore' = [rateLimitStore EXCEPT ![key].count = count]
                  /\ IF OverLimit(count, max)
                     THEN last' = RateAnswer(keyPrefix, ip, FALSE, 429,
                                      setRateLimitHeaders(max, 0, windowMs, retryAfter),
                                      [error |-> "Too Many Requests",
                                       retryAfter |-> retryAfter], throttled)
                     ELSE last' = RateAnswer(keyPrefix, ip, TRUE, 0,
                                      setRateLimitHeaders(max, max - count, windowMs,
                                                          Omitted),
                                      NoBody, throttled)
       /\ UNCHANGED <<now, usePreDrive, Memory, Storage, issued, inflight>>

apiRateLimiter(ip) ==
    createRateLimiter(API_RATE_LIMIT_WINDOW_MS, API_RATE_LIMIT_MAX, "api", ip)
editRateLimiter(ip) ==
    createRateLimiter(API_RATE_LIMIT_WINDOW_MS, EDIT_RATE_LIMIT_MAX, "edit", ip)
createRateLimiterMiddleware(ip) ==
    createRateLimiter(API_RATE_LIMIT_WINDOW_MS, CREATE_RATE_LIMIT_MAX, "create", ip)
wopiRateLimiter(ip) ==
    createRateLimiter(API_RATE_LIMIT_WINDOW_MS, WOPI_RATE_LIMIT_MAX, "wopi", ip)

\* the interval that deletes records older than two windows
\* every record deleted, whatever its age
CleanupAlways(record) == TRUE

\* now - record.startTime > API_RATE_LIMIT_WINDOW_MS * 2
CleanupDue(record) == now - record.startTime > API_RATE_LIMIT_WINDOW_MS * 2

rateLimitCleanup ==
    LET kept == {k \in DOMAIN rateLimitStore : ~CleanupDue(rateLimitStore[k])}
    IN /\ kept # DOMAIN rateLimitStore
       /\ rateLimitStore' = [k \in kept |-> rateLimitStore[k]]
       /\ UNCHANGED <<now, usePreDrive, allowedLog, Memory, Storage, issued, inflight, last>>

----------------------------------------------------------------------------
(* SpecRate: one client asking the create class, the clock moving through   *)
(* one window and past it.                                                  *)

RateInstants == {1, 1000, 59001, 60000, 60001, 120002}
RateClient == "10.0.0.1"

\* the record of (keyPrefix, ip) has counted fewer than cap requests
CountBelow(keyPrefix, ip, cap) ==
    RateKey(keyPrefix, ip) \in DOMAIN rateLimitStore
        => rateLimitStore[RateKey(keyPrefix, ip)].count < cap

RateClock == \E t \in RateInstants : Tick(t)
RateCreate ==
    /\ CountBelow("create", RateClient, MaxRateCount)
    /\ createRateLimiterMiddleware(RateClient)
    /\ UNCHANGED allowedLog
RateSweep == rateLimitCleanup

NextRate == RateClock \/ RateCreate \/ RateSweep

SpecRate == Init /\ [][NextRate]_vars

\* the maximum of each class
RateLimitMax ==
    [p \in KeyPrefixes |->
        CASE p = "api" -> API_RATE_LIMIT_MAX
          [] p = "edit" -> EDIT_RATE_LIMIT_MAX
          [] p = "create" -> CREATE_RATE_LIMIT_MAX
          [] OTHER -> WOPI_RATE_LIMIT_MAX]

\* the step is a request of client ip in class p: its record is new or changed
Requested(p, ip) ==
    LET key == p \o ":" \o ip
    IN /\ key \in DOMAIN rateLimitStore'
       /\ key \in DOMAIN rateLimitStore => rateLimitStore'[key] # rateLimitStore[key]

\* the record of (p, ip) holds a window that has not elapsed
InWindow(p, ip) ==
    LET key == p \o ":" \o ip
    IN /\ key \in DOMAIN rateLimitStore
       /\ now - rateLimitStore[key].startTime <= API_RATE_LIMIT_WINDOW_MS

\* C21: a request that finds no window, or an elapsed one, is the first of a
\* new window; any other is one more of the current window.  The n-th
\* request of a window is passed on to the handler when n is at most the
\* maximum of its class, and is answered 429 without next() when n is larger.
C21_FirstNPassRestRefused ==
    [][\A p \in KeyPrefixes, ip \in ClientIps :
          Requested(p, ip) =>
              LET key == p \o ":" \o ip
                  nth == IF InWindow(p, ip) THEN rateLimitStore[key].count + 1 ELSE 1
              IN /\ rateLimitStore'[key].count = nth
                 /\ rateLimitStore'[key].startTime =
                        IF InWindow(p, ip) THEN rateLimitStore[key].startTime ELSE now
                 /\ last'.op = "RATE_LIMIT"
                 /\ last'.body.keyPrefix = p /\ last'.body.ip = ip
                 /\ nth <= RateLimitMax[p] => last'.body.next /\ last'.status # 429
                 /\ nth > RateLimitMax[p] => ~last'.body.next /\ last'.status = 429]_vars

\* the request after the last one that passed was refused, and so was the next
C21_Witness ==
    /\ last.op = "RATE_LIMIT" /\ last.status = 429
    /\ last.body.keyPrefix = "create"
    /\ rateLimitStore["create:10.0.0.1"].count = CREATE_RATE_LIMIT_MAX + 2
    /\ now > rateLimitStore["create:10.0.0.1"].startTime

\* C22: every 429 carries Retry-After, in the header and in the body, equal to
\* the time left in the window rounded up to whole seconds, which is at least
\* 1 and at most the length of the window in seconds.
C22_RetryAfterIsTimeLeft ==
    (/\ last.op = "RATE_LIMIT" /\ last.status = 429
     /\ (last.body.keyPrefix \o ":" \o last.body.ip) \in DOMAIN rateLimitStore)
        => LET record == rateLimitStore[last.body.keyPrefix \o ":" \o last.body.ip]
               left == record.startTime + API_RATE_LIMIT_WINDOW_MS - last.at
               seconds == last.body.json.retryAfter
           IN /\ seconds * 1000 >= left /\ (seconds - 1) * 1000 < left
              /\ "Retry-After" \in DOMAIN last.body.headers
              /\ last.body.headers["Retry-After"] = seconds
              /\ seconds >= 1
              /\ seconds * 1000 <= API_RATE_LIMIT_WINDOW_MS

----------------------------------------------------------------------------
(* SpecBudget: one client asking all four classes and a second client the   *)
(* wopi class, a few requests each, in two windows.                       *)

MaxBudgetCount == 2
BudgetInstants == {120002}

BudgetClock == \E t \in BudgetInstants : Tick(t)
BudgetApi ==
    /\ CountBelow("api", RateClient, MaxBudgetCount)
    /\ apiRateLimiter(RateClient)
    /\ UNCHANGED allowedLog
BudgetEdit ==
    /\ CountBelow("edit", RateClient, MaxBudgetCount)
    /\ editRateLimiter(RateClient)
    /\ UNCHANGED allowedLog
BudgetCreate ==
    /\ CountBelow("create", RateClient, MaxBudgetCount)
    /\ createRateLimiterMiddleware(RateClient)
    /\ UNCHANGED allowedLog
BudgetWopi ==
    \E ip \in ClientIps :
        /\ CountBelow("wopi", ip, MaxBudgetCount)
        /\ wopiRateLimiter(ip)
        /\ UNCHANGED allowedLog
BudgetSweep == rateLimitCleanup

NextBudget ==
    BudgetClock \/ BudgetApi \/ BudgetEdit \/ BudgetCreate \/ BudgetWopi \/ BudgetSweep

SpecBudget == Init /\ [][NextBudget]_vars

\* the step counted a request: some record is new or has changed
Counted ==
    \E k \in DOMAIN rateLimitStore' :
        k \in DOMAIN rateLimitStore => rateLimitStore'[k] # rateLimitStore[k]

\* C23: a request of one client in one class is counted in the record of that
\* client and class, and every other record (another client's, or the same
\* client's in another class) keeps its count and its window start.
C23_BudgetsIndependent ==
    [][Counted =>
          /\ last'.op = "RATE_LIMIT"
          /\ LET own == last'.body.keyPrefix \o ":" \o last'.body.ip
             IN /\ own \in DOMAIN rateLimitStore'
                /\ \A k \in (DOMAIN rateLimitStore \cup DOMAIN rateLimitStore') \ {own} :
                      /\ k \in DOMAIN rateLimitStore /\ k \in DOMAIN rateLimitStore'
                      /\ rateLimitStore'[k] = rateLimitStore[k]]_vars

\* a request counted while the same client's record in another class and the
\* other client's record in the same class were in an earlier window
C23_Witness ==
    /\ last.op = "RATE_LIMIT" /\ last.body.keyPrefix = "wopi"
    /\ last.body.ip = "10.0.0.1"
    /\ {"wopi:10.0.0.1", "edit:10.0.0.1", "wopi:10.0.0.2"} \subseteq DOMAIN rateLimitStore
    /\ rateLimitStore["wopi:10.0.0.1"] = [count |-> 1, startTime |-> 120002]
    /\ rateLimitStore["edit:10.0.0.1"] = [count |-> 2, startTime |-> 0]
    /\ rateLimitStore["wopi:10.0.0.2"] = [count |-> 1, startTime |-> 0]

----------------------------------------------------------------------------
(* Spec, continued: the answers of the switch over X-WOPI-Override *)

\* the step answered a POST /wopi/files/FileA that passed the middleware
\* and the fileId validation, with one of these overrides
Answered(ops) ==
    /\ last' # last
    /\ last'.op \in ops
    /\ last'.fileId = FileA
    /\ last'.status # 401

\* the file is Locked: the lock table holds a token for it
Locked(f) == Truthy(fileLocks[f])

\* C24: a POST /wopi/files/{fileId} without X-WOPI-Override, or with a value
\* that is none of the eight operation names, is answered 400 and changes no
\* lock record, no session and no stored content.
C24_UnknownOverrideRefused ==
    [][Answered(UnknownOverrides)
          => /\ last'.status = 400
             /\ UNCHANGED <<fileLocks, sessionStore, Stored, nodeNames>>]_vars

\* an override in the wrong case, with an accepted token, on a locked file
C24_Witness ==
    /\ last.op = "lock" /\ last.status = 400
    /\ last.tok \in DOMAIN sessionStore
    /\ Locked(FileA)

\* C25: an UNLOCK that presents the holder's token on a Locked file is
\* answered 200 and removes the lock record; a GET_LOCK that follows it is
\* answered with the empty value, and a LOCK that follows it succeeds whatever
\* its token.
C25_UnlockByHolder ==
    [][/\ (Answered({"UNLOCK"}) /\ Locked(FileA) /\ last'.lockId = fileLocks[FileA])
            => /\ last'.status = 200
               /\ fileLocks'[FileA] = Absent
       /\ (last.op = "UNLOCK" /\ last.status = 200 /\ Truthy(last.cur))
            => /\ fileLocks[FileA] = Absent
               /\ Answered({"GET_LOCK"})
                    => last'.status = 200 /\ last'.hdrLock = EmptyStr
               /\ Answered({"LOCK"})
                    => last'.status = 200 /\ fileLocks'[FileA] = last'.lockId]_vars

\* the holder's UNLOCK has been answered
C25_Witness ==
    /\ last.op = "UNLOCK" /\ last.status = 200
    /\ last.cur \in LockTokens /\ last.lockId = last.cur
    /\ fileLocks[FileA] = Absent

\* C26: UNLOCK_AND_RELOCK puts the new token in the lock table, with 200,
\* when the file is Locked and X-WOPI-OldLock is the holder's token; in every
\* other case, an Unlocked file with or without X-WOPI-OldLock among them, it
\* is answered 409 and leaves the lock table as it was.
C26_RelockOnlyFromHolder ==
    [][Answered({"UNLOCK_AND_RELOCK"})
          => IF Locked(FileA) /\ last'.oldLockId = fileLocks[FileA]
             THEN last'.status = 200 /\ fileLocks'[FileA] = last'.lockId
             ELSE last'.status = 409 /\ UNCHANGED fileLocks]_vars

\* C27: REFRESH_LOCK is answered 200 when the file is Locked and X-WOPI-Lock
\* is the holder's token, and 409 in every other case, an Unlocked file among
\* them; it never changes the lock table.
C27_RefreshOnlyByHolder ==
    [][Answered({"REFRESH_LOCK"})
          => /\ last'.status =
                    IF Locked(FileA) /\ last'.lockId = fileLocks[FileA] THEN 200 ELSE 409
             /\ UNCHANGED fileLocks]_vars

\* C28: GET_LOCK is answered 200 with X-WOPI-Lock holding the holder's token,
\* or the empty string when the file is Unlocked, and changes neither the
\* lock table nor the session store nor any stored content.
C28_GetLockReadsOnly ==
    [][Answered({"GET_LOCK"})
          => /\ last'.status = 200
             /\ last'.hdrLock = IF Locked(FileA) THEN fileLocks[FileA] ELSE EmptyStr
             /\ UNCHANGED <<fileLocks, sessionStore, Stored, nodeNames>>]_vars

\* GET_LOCK on a locked file
C28_Witness ==
    /\ last.op = "GET_LOCK" /\ last.status = 200
    /\ last.hdrLock = "t1"
    /\ fileLocks[FileA] = "t1"

----------------------------------------------------------------------------
(* SpecShare: two files, each with its own token and no PreDrive node, so   *)
(* that their content is kept on the local disk and in demoFiles.           *)

MaxShareSessions == 2
ShareTokens == 1..MaxShareSessions
ShareContents == {"b1", "b2"}

\* the token tok was issued for the file f
IssuedFor(tok, f) == tok \in DOMAIN issued /\ issued[tok].fileId = f

ShareIssue ==
    \E sid \in ShareTokens, path \in {PathGt, PathQm} :
        ApiEdit("u1", path, Undefined, TRUE, sid)
SharePut ==
    \E f \in SharedFileIds, tok \in ShareTokens, c \in ShareContents :
        IssuedFor(tok, f) /\ PutFile(f, tok, Undefined, c)
ShareGet ==
    \E f \in SharedFileIds, tok \in ShareTokens :
        IssuedFor(tok, f) /\ GetFile(f, tok, TRUE)
ShareLock ==
    \E f \in SharedFileIds, tok \in ShareTokens, o \in {"LOCK", "UNLOCK"} :
        IssuedFor(tok, f) /\ WopiPost(f, tok, o, "t1", Undefined)
ShareDelete ==
    \E f \in SharedFileIds, tok \in ShareTokens :
        IssuedFor(tok, f) /\ WopiPost(f, tok, "DELETE", Undefined, Undefined)

NextShare == ShareIssue \/ SharePut \/ ShareGet \/ ShareLock \/ ShareDelete

SpecShare == Init /\ [][NextShare]_vars

\* C29: a request addressed to one valid fileId leaves the lock record of
\* every other valid fileId as it was, and its content on the local disk and
\* in the in-memory copy too.
C29_OtherFileUntouched ==
    [][\A b \in SharedFileIds :
          (/\ last' # last
           /\ last'.op \in {"PutFile", "GetFile", "LOCK", "UNLOCK", "DELETE"}
           /\ last'.fileId # b)
              => /\ fileLocks'[b] = fileLocks[b]
                 /\ demoFiles'[b] = demoFiles[b]
                 /\ disk'[getStoragePath(b)] = disk[getStoragePath(b)]]_vars

----------------------------------------------------------------------------
(* corsMiddleware: the headers it sets for a request's Origin.  NODE_ENV is *)
(* read once when the process starts; a call is made under either setting.  *)

\* "https://preoffice.site"
OriginSite ==
    <<104, 116, 116, 112, 115, 58, 47, 47, 112, 114, 101, 111, 102, 102, 105, 99, 101, 46, 115, 105, 116, 101>>
\* "https://predrive.eu"
OriginDrive ==
    <<104, 116, 116, 112, 115, 58, 47, 47, 112, 114, 101, 100, 114, 105, 118, 101, 46, 101, 117>>
\* "https://presuite.eu"
OriginSuite ==
    <<104, 116, 116, 112, 115, 58, 47, 47, 112, 114, 101, 115, 117, 105, 116, 101, 46, 101, 117>>
\* "https://preoffice.site.evil.com"
OriginSiteSuffixed ==
    <<104, 116, 116, 112, 115, 58, 47, 47, 112, 114, 101, 111, 102, 102, 105, 99, 101, 46, 115, 105, 116, 101, 46, 101, 118, 105, 108, 46, 99, 111, 109>>
\* "http://localhost:3000"
OriginLocalhost ==
    <<104, 116, 116, 112, 58, 47, 47, 108, 111, 99, 97, 108, 104, 111, 115, 116, 58, 51, 48, 48, 48>>
\* "http://127.0.0.1:8080"
OriginLoopback ==
    <<104, 116, 116, 112, 58, 47, 47, 49, 50, 55, 46, 48, 46, 48, 46, 49, 58, 56, 48, 56, 48>>
\* "https://localhost.evil.com"
OriginLocalhostPrefixed ==
    <<104, 116, 116, 112, 115, 58, 47, 47, 108, 111, 99, 97, 108, 104, 111, 115, 116, 46, 101, 118, 105, 108, 46, 99, 111, 109>>
\* "http://127.0.0.1.evil.com"
OriginLoopbackPrefixed ==
    <<104, 116, 116, 112, 58, 47, 47, 49, 50, 55, 46, 48, 46, 48, 46, 49, 46, 101, 118, 105, 108, 46, 99, 111, 109>>
\* "https://evil.com"
OriginOther ==
    <<104, 116, 116, 112, 115, 58, 47, 47, 101, 118, 105, 108, 46, 99, 111, 109>>
\* "localhost"
Localhost ==
    <<108, 111, 99, 97, 108, 104, 111, 115, 116>>
\* "127.0.0.1"
Loopback ==
    <<49, 50, 55, 46, 48, 46, 48, 46, 49>>

NoOrigin == <<>>                            \* no Origin header

\* the default of CORS_ORIGINS
CORS_ALLOWED_ORIGINS == {OriginSite, OriginDrive, OriginSuite}

\* allowOrigin is the value of Access-Control-Allow-Origin, NoOrigin when the
\* header is not set; allowCredentials is whether
\* Access-Control-Allow-Credentials: true is set
corsMiddleware(isProduction, origin, method) ==
    LET grant == IF origin # NoOrigin /\ origin \in CORS_ALLOWED_ORIGINS
                    THEN TRUE
                 ELSE IF ~isProduction /\ origin # NoOrigin
                    THEN Includes(origin, Localhost) \/ Includes(origin, Loopback)
                 ELSE FALSE
    IN /\ last' = Answer("cors", <<>>, NoToken, Undefined, Undefined, Undefined,
                         IF method = "OPTIONS" THEN 204 ELSE 0, Undefined,
                         [production |-> isProduction, origin |-> origin,
                          method |-> method,
                          allowOrigin |-> IF grant THEN origin ELSE NoOrigin,
                          allowCredentials |-> grant])
       /\ UNCHANGED <<now, usePreDrive, rateLimitStore, allowedLog, Memory, Storage, issued, inflight>>

----------------------------------------------------------------------------
(* SpecCors: corsMiddleware on every origin below, in production and not *)

CorsOrigins ==
    {NoOrigin, OriginSite, OriginDrive, OriginSuite, OriginSiteSuffixed,
     OriginLocalhost, OriginLoopback, OriginLocalhostPrefixed,
     OriginLoopbackPrefixed, OriginOther}
CorsMethods == {"GET", "POST", "OPTIONS"}

Cors ==
    \E isProduction \in BOOLEAN, origin \in CorsOrigins, method \in CorsMethods :
        corsMiddleware(isProduction, origin, method)

NextCors == Cors

SpecCors == Init /\ [][NextCors]_vars

\* the host of an origin: what follows "://" up to the port, if any
HostOf(origin) ==
    LET marks == {i \in 3..Len(origin) :
                     origin[i] = 47 /\ origin[i - 1] = 47 /\ origin[i - 2] = 58}
        from == 1 + CHOOSE i \in marks : \A j \in marks : i <= j
        rest == SubSeqFrom(origin, from)
        stops == {i \in 1..Len(rest) : rest[i] \in {58, 47}}
    IN IF stops = {} THEN rest
       ELSE SubSeq(rest, 1, (CHOOSE i \in stops : \A j \in stops : i <= j) - 1)

\* C30: Access-Control-Allow-Origin and Access-Control-Allow-Credentials are
\* set together, to the request's Origin, and only when that Origin is a
\* member of the allow-list or, outside production, an origin whose host is
\* localhost or 127.0.0.1.
C30_GrantedOnlyToAllowed ==
    last.op = "cors"
        => /\ last.body.allowCredentials <=> last.body.allowOrigin # NoOrigin
           /\ last.body.allowCredentials
                => /\ last.body.allowOrigin = last.body.origin
                   /\ \/ last.body.origin \in CORS_ALLOWED_ORIGINS
                      \/ /\ ~last.body.production
                         /\ HostOf(last.body.origin) \in {Localhost, Loopback}

----------------------------------------------------------------------------
(* SpecContent, continued: a lock taken while an upload is on its way *)

\* C31: when a PutFile replaces stored content (on PreDrive, or on the local
\* disk and in the in-memory copy) the file is not Locked with a token other
\* than the one that PutFile presented, whether the bytes are stored by the
\* handler at once or after its upload to PreDrive has settled.
C31_NoWriteUnderAnotherLock ==
    [][(/\ Stored' # Stored
        /\ last'.op = "PutFile"
        /\ last'.status = 200
        /\ Locked(last'.fileId))
          => fileLocks[last'.fileId] = last'.lockId]_vars

----------------------------------------------------------------------------
(* Spec, continued: the records of the lock table *)

\* C32: the lock table holds, for each file, either no record or a record
\* with a non-empty token; a LOCK answered 200 leaves the file Locked with
\* the non-empty token it presented.
C32_NoEmptyLockRecord ==
    /\ \A f \in FileIds : fileLocks[f] = Absent \/ fileLocks[f] \in LockTokens
    /\ (last.op = "LOCK" /\ last.status = 200)
            => /\ last.lockId \in LockTokens
               /\ fileLocks[last.fileId] = last.lockId

----------------------------------------------------------------------------
(* SpecSlide: one client asking the create class late in one window and     *)
(* early in the next, with a log of the requests that were passed on.       *)

MaxSlideCount == 21
SlideInstants == {59001, 60001}

\* the log after a request at the present instant: the instants, within the
\* last window length, at which a request was passed on
LogAnswer ==
    LET recent == SelectSeq(allowedLog,
                            LAMBDA t : now - t < API_RATE_LIMIT_WINDOW_MS)
    IN allowedLog' = IF last'.body.next THEN Append(recent, now) ELSE recent

SlideClock == \E t \in SlideInstants : Tick(t)
SlideCreate ==
    /\ CountBelow("create", RateClient, MaxSlideCount)
    /\ createRateLimiterMiddleware(RateClient)
    /\ LogAnswer

NextSlide == SlideClock \/ SlideCreate

SpecSlide == Init /\ [][NextSlide]_vars

\* C33: of the requests of one client in one class that were passed on, no
\* more than the maximum of the class fall in any interval shorter than the
\* window length, wherever the interval lies with respect to the instant at
\* which a new record was started.
C33_SlidingWindow ==
    \A i \in 1..Len(allowedLog) :
        Cardinality({j \in i..Len(allowedLog) :
                        allowedLog[j] - allowedLog[i] < API_RATE_LIMIT_WINDOW_MS})
            <= CREATE_RATE_LIMIT_MAX

----------------------------------------------------------------------------
(* SpecRate, continued: the cleanup interval *)

\* the step deleted records and answered no request
Swept ==
    /\ DOMAIN rateLimitStore' # DOMAIN rateLimitStore
    /\ DOMAIN rateLimitStore' \subseteq DOMAIN rateLimitStore

\* whether a request of (p, ip) at instant t would be passed on, the Map
\* being store
WouldPass(store, p, ip, t) ==
    LET key == p \o ":" \o ip
    IN \/ key \notin DOMAIN store
       \/ t - store[key].startTime > API_RATE_LIMIT_WINDOW_MS
       \/ store[key].count + 1 <= RateLimitMax[p]

\* C34: the cleanup deletes only records whose window started more than two
\* window lengths ago, so none whose window is still open; the records it
\* keeps are as they were, and whether a request would be passed on or
\* refused, now or later, is the same after the cleanup as before it.
C34_SweepOnlyTheElapsed ==
    [][Swept =>
          /\ \A k \in DOMAIN rateLimitStore \ DOMAIN rateLimitStore' :
                /\ now - rateLimitStore[k].startTime > 2 * API_RATE_LIMIT_WINDOW_MS
                /\ ~(now - rateLimitStore[k].startTime <= API_RATE_LIMIT_WINDOW_MS)
          /\ \A k \in DOMAIN rateLimitStore' : rateLimitStore'[k] = rateLimitStore[k]
          /\ \A p \in KeyPrefixes, ip \in ClientIps, t \in RateInstants :
                t >= now => (WouldPass(rateLimitStore', p, ip, t)
                                <=> WouldPass(rateLimitStore, p, ip, t))]_vars

\* the record of a client that had been refused is gone
C34_Witness ==
    /\ rateLimitStore = <<>>
    /\ last.op = "RATE_LIMIT" /\ last.status = 429
    /\ now - last.at > 2 * API_RATE_LIMIT_WINDOW_MS

----------------------------------------------------------------------------
(* Spec, continued: a DELETE that PreDrive does not carry out *)

\* the step settled a DELETE that was waiting on PreDrive, and PreDrive
\* deleted nothing
DeleteFailed ==
    /\ \E h \in inflight : h.op = "DELETE" /\ h \notin inflight'
    /\ remote' = remote

\* C40: when the DELETE sent to PreDrive fails or times out, the request is
\* answered with an error status, and the lock record, the local-disk copy
\* and the in-memory copy of the file are as they were.
C40_FailedDeleteKeepsAll ==
    [][DeleteFailed =>
          /\ last'.op = "DELETE"
          /\ last'.status = 500
          /\ UNCHANGED <<fileLocks, disk, demoFiles>>]_vars

\* a failed DELETE by the holder of the lock, which still holds it
C40_Witness ==
    /\ last.op = "DELETE" /\ last.status = 500
    /\ last.lockId \in LockTokens
    /\ fileLocks[last.fileId] = last.lockId
    /\ inflight = {}

----------------------------------------------------------------------------
(* SpecLive: PutFile and DELETE of one file while PreDrive is slow, fails   *)
(* or answers.  Every outbound call carries a timeout (predriveRequest 30 s, *)
(* download and upload 60 s, verifyPresuitToken 5 s), so the promise a      *)
(* handler awaits settles and the event loop then runs the handler's        *)
(* continuation: each waiting handler is weakly fair.                       *)

LiveLocks == {Undefined, "t1"}              \* X-WOPI-Lock of the requests
LiveToken == CHOOSE tok \in AccessTokens : TRUE   \* the one access token issued

\* what a handler of this specification may hold while it waits
LiveWaits ==
    {[op |-> o, fileId |-> FileA, tok |-> LiveToken, lockId |-> l, cur |-> c,
      nodeId |-> "n1", content |-> IF o = "PutFile" THEN "b1" ELSE NoBody,
      version |-> 0] :
        o \in {"PutFile", "DELETE"}, l \in LiveLocks, c \in LiveLocks}

LiveIssue == ApiEdit("u1", PathA, "n1", TRUE, LiveToken)

LiveLock == WopiPost(FileA, LiveToken, "LOCK", "t1", Undefined)

LivePut == \E l \in LiveLocks : PutFile(FileA, LiveToken, l, "b1")

LiveDelete == \E l \in LiveLocks : WopiPost(FileA, LiveToken, "DELETE", l, Undefined)

\* the call of handler h settles: PreDrive answered, failed or timed out
LiveSettles(h) ==
    \E ok \in BOOLEAN : PutFileSettled(h, ok) \/ DeleteSettled(h, ok)

LiveSettle == \E h \in inflight : LiveSettles(h)

NextLive == LiveIssue \/ LiveLock \/ LivePut \/ LiveDelete \/ LiveSettle

SpecLive ==
    /\ Init
    /\ [][NextLive]_vars
    /\ \A h \in LiveWaits : WF_vars(LiveSettles(h))

\* the answer in last is the answer to handler h
AnswerTo(h, answer) ==
    /\ answer.op = h.op
    /\ answer.fileId = h.fileId
    /\ answer.tok = h.tok
    /\ answer.lockId = h.lockId
    /\ answer.status \in {200, 500}

----------------------------------------------------------------------------
(* SpecSweep, continued: the sweep and the expiry of the token *)

\* C36: the session sweep removes only sessions whose access token is already
\* past its expiry, so every token that has not expired still has its
\* session after any number of sweeps.
C36_SweptOnlyAfterExpiry ==
    /\ [][\A s \in DOMAIN sessionStore :
            s \notin DOMAIN sessionStore'
                => /\ s \in DOMAIN issued
                   /\ now \div 1000 >= issued[s].exp]_vars
    /\ [](\A s \in DOMAIN issued :
            now \div 1000 < issued[s].exp => s \in DOMAIN sessionStore)

\* a sweep has removed the session of an expired token and kept the session
\* of a token that is still good
C36_Witness ==
    /\ \E s \in DOMAIN issued :
            s \notin DOMAIN sessionStore /\ now \div 1000 >= issued[s].exp
    /\ \E s \in DOMAIN sessionStore : now \div 1000 < issued[s].exp

----------------------------------------------------------------------------
(* SpecHandout: /api/edit is asked for a plain path and for "../x", and the  *)
(* file id it returns is used on CheckFileInfo with the token it returned.   *)

HandoutPaths == {PathA, PathUp}

HandoutEdit ==
    \E filePath \in HandoutPaths, sid \in 1..MaxSwept :
        ApiEdit("u1", filePath, Undefined, TRUE, sid)

\* the client follows the editor URL: the file id and the token of one answer
HandoutInfo ==
    \E tok \in DOMAIN issued : CheckFileInfo(issued[tok].fileId, tok, TRUE)

NextHandout == HandoutEdit \/ HandoutInfo \/ Clock

SpecHandout == Init /\ [][NextHandout]_vars

\* C37: every fileId the server hands out is accepted by validateFileId, so
\* a protocol request that carries it with the token handed out with it is
\* not refused as an invalid file id.
C37_HandedOutIdsAreValid ==
    /\ (last.op \in {"edit", "create", "PUT_RELATIVE"} /\ last.status = 200)
            => validateFileId(last.body.fileId).valid
    /\ (/\ last.op = "CheckFileInfo"
        /\ last.tok \in DOMAIN issued
        /\ issued[last.tok].fileId = last.fileId)
            => last.status # 400

----------------------------------------------------------------------------
(* SpecRelative: PUT_RELATIVE from FileA makes "/c.odt"; the file is locked  *)
(* with the token that came with it, and PUT_RELATIVE is sent again.         *)

MaxRelativeSessions == 3                    \* access tokens issued in one run
RelativeTokens == 1..MaxRelativeSessions
RelativeContents == {"b1", "b2"}            \* the bodies PUT_RELATIVE carries

RelativeIssue ==
    \E sid \in RelativeTokens : ApiEdit("u1", PathA, "n1", TRUE, sid)

RelativePut ==
    \E tok \in RelativeTokens, c \in RelativeContents, sid \in RelativeTokens :
        WopiPutRelative(FileA, tok, NameNew, <<>>, c, TRUE, sid)

RelativeLock ==
    \E tok \in RelativeTokens : WopiPost(FileNew, tok, "LOCK", "t1", Undefined)

RelativeUnlock ==
    \E tok \in RelativeTokens : WopiPost(FileNew, tok, "UNLOCK", "t1", Undefined)

NextRelative == RelativeIssue \/ RelativePut \/ RelativeLock \/ RelativeUnlock

SpecRelative == Init /\ [][NextRelative]_vars

\* C38: PUT_RELATIVE does not replace the stored content of a target file
\* that exists already and is Locked with a token the request did not present.
C38_NoOverwriteOfLockedTarget ==
    [][\A f \in MapKeys :
        (/\ last'.op = "PUT_RELATIVE"
         /\ last'.status = 200
         /\ disk[StoragePath(f)] # Absent
         /\ Locked(f)
         /\ \/ disk'[StoragePath(f)] # disk[StoragePath(f)]
            \/ demoFiles'[f] # demoFiles[f])
            => fileLocks[f] = last'.lockId]_vars

----------------------------------------------------------------------------
(* SpecRate, continued: the end of a throttling *)

\* C39: a refused request leaves the start of the window where it was, and
\* the first request of a throttled client after the window has elapsed is
\* passed on to the handler as the first of a new window.
C39_AllowedAgainAfterWindow ==
    [][\A p \in KeyPrefixes, ip \in ClientIps :
          LET key == p \o ":" \o ip IN
          (Requested(p, ip) /\ key \in DOMAIN rateLimitStore) =>
              /\ last'.status = 429
                    => rateLimitStore'[key].startTime = rateLimitStore[key].startTime
              /\ (/\ rateLimitStore[key].count > RateLimitMax[p]
                  /\ now - rateLimitStore[key].startTime > API_RATE_LIMIT_WINDOW_MS)
                    => /\ last'.body.next
                       /\ last'.status # 429
                       /\ rateLimitStore'[key] = [count |-> 1, startTime |-> now]]_vars

\* a client that had been refused was passed on one millisecond after the
\* end of its window
C39_Witness ==
    /\ last.op = "RATE_LIMIT"
    /\ last.body.throttled /\ last.body.next
    /\ now = API_RATE_LIMIT_WINDOW_MS + 1
    /\ rateLimitStore["create:10.0.0.1"] = [count |-> 1, startTime |-> now]

====
